---------------------------- MODULE Spec2Model ----------------------------
(***************************************************************************)
(* Model of the return-analysis-app analytics code:                        *)
(*   - the Monte Carlo LEAPS simulator  (src/pages/api/leaps-sim.js)       *)
(*   - the Black-Scholes pricers and the scenario evaluators               *)
(*       (src/pages/api/leaps-sim.js, src/pages/api/leaps-scenario.js,     *)
(*        src/unnamed/part_003, src/unnamed/part_004)                      *)
(*   - the return-risk analyzer         (src/pages/index.js)               *)
(*                                                                         *)
(* A JavaScript number is modelled as a record: a finite value is an exact *)
(* rational n/d in lowest terms, and NaN, +Infinity and -Infinity are      *)
(* values of their own, so that Number(), comparisons and arithmetic keep   *)
(* the outcomes the code branches on.  Rounding of finite floating point   *)
(* results is not modelled.                                                 *)
(***************************************************************************)
EXTENDS Integers, Sequences, FiniteSets, TLC

VARIABLES
    \* ---- simulate handler (leaps-sim.js) ----
    pc,         \* position of the handler
    loc,        \* the handler's normalized locals S0, K, sigma, r, q, optType, paid, qty, sims
    rawNSims,   \* the nSims field of the request, as received
    dates,      \* cur, exp (day numbers) and totalDays
    cpDays,     \* the checkpoint day offsets
    path,       \* outer loop counter: paths simulated so far
    ci,         \* inner loop counter: next checkpoint index (1-based)
    S,          \* the current path's underlying price
    lastCall,   \* arguments and branch of the latest bsPrice call
    nVals,      \* number of valuations performed
    res,        \* the HTTP response
    written,    \* how often each output slot <<checkpoint, path>> was written
    draw,       \* randn: the uniform value being drawn, "u" or "v", or "z" once
                \* both are there
    \* ---- pricers and scenario evaluators ----
    sc,         \* the scenario page being evaluated and its inputs
    scOut,      \* what the evaluator produced
    \* ---- analyzer (index.js) ----
    an,         \* the analyzer's input
    anOut,      \* the analyzer's result
    \* ---- the quantile functions ----
    qt,         \* an array, two probabilities and the quantiles computed
    sm,         \* an array, a reordering of it and the summaries of both
    \* ---- the pages and the prices API that run concurrently ----
    page,       \* the LEAPS scenario page: its state, timer and requests in flight
    api,        \* the prices API: clock, cache, failures and requests in flight
    home        \* the Return Risk Analyzer page: its state and requests in flight

vars == <<pc, loc, rawNSims, dates, cpDays, path, ci, S, lastCall, nVals, res,
          written, draw, sc, scOut, an, anOut, qt, sm, page, api, home>>

simVars == <<pc, loc, rawNSims, dates, cpDays, path, ci, S, lastCall, nVals, res,
             written, draw>>
scVars  == <<sc, scOut>>
anVars  == <<an, anOut>>
qtVars  == <<qt>>
smVars  == <<sm>>
uiVars  == <<page, api, home>>
coreVars == <<simVars, scVars, anVars, qtVars, smVars>>

-----------------------------------------------------------------------------
(***************************************************************************)
(* JavaScript numbers                                                      *)
(***************************************************************************)
Abs(x) == IF x < 0 THEN -x ELSE x

RECURSIVE GCD(_, _)
GCD(a, b) == IF b = 0 THEN a ELSE GCD(b, a % b)

\* the finite number n/d (d # 0), in lowest terms with a positive denominator
Rat(n, d) ==
    LET g == GCD(Abs(n), Abs(d))
        s == IF d < 0 THEN -1 ELSE 1
    IN [k |-> "fin", n |-> (s * n) \div g, d |-> (s * d) \div g]

Int2Num(n) == [k |-> "fin", n |-> n, d |-> 1]
NaN  == [k |-> "nan",  n |-> 0, d |-> 1]
PInf == [k |-> "pinf", n |-> 0, d |-> 1]
NInf == [k |-> "ninf", n |-> 0, d |-> 1]
Zero == Int2Num(0)
One  == Int2Num(1)

\* the sign of a number that is not NaN: -1, 0 or 1
Sign(x) ==
    CASE x.k = "pinf" -> 1
      [] x.k = "ninf" -> -1
      [] OTHER -> IF x.n > 0 THEN 1 ELSE IF x.n < 0 THEN -1 ELSE 0

\* the sign of n1/d1 - n2/d2 for positive d1 and d2, by the integer parts and
\* then the reciprocals of the fractional parts (no product is formed)
RECURSIVE CmpFrac(_, _, _, _)
CmpFrac(n1, d1, n2, d2) ==
    LET q1 == n1 \div d1
        q2 == n2 \div d2
        r1 == n1 % d1
        r2 == n2 % d2
    IN IF q1 # q2 THEN (IF q1 < q2 THEN -1 ELSE 1)
       ELSE IF r1 = 0 \/ r2 = 0
         THEN (IF r1 = r2 THEN 0 ELSE IF r1 = 0 THEN -1 ELSE 1)
       ELSE CmpFrac(d2, r2, d1, r1)

\* a < b; false when either is NaN
Lt(a, b) ==
    CASE a.k = "nan" \/ b.k = "nan" -> FALSE
      [] a.k = "pinf" -> FALSE
      [] b.k = "ninf" -> FALSE
      [] a.k = "ninf" -> TRUE
      [] b.k = "pinf" -> TRUE
      [] OTHER -> IF a.d = b.d THEN a.n < b.n
                  ELSE CmpFrac(a.n, a.d, b.n, b.d) < 0

NumEq(a, b) == a.k # "nan" /\ b.k # "nan" /\ a = b
Le(a, b) == Lt(a, b) \/ NumEq(a, b)
Gt(a, b) == Lt(b, a)
Ge(a, b) == Le(b, a)

Neg(a) ==
    CASE a.k = "nan"  -> NaN
      [] a.k = "pinf" -> NInf
      [] a.k = "ninf" -> PInf
      [] OTHER -> Rat(-a.n, a.d)

Add(a, b) ==
    CASE a.k = "nan" \/ b.k = "nan" -> NaN
      [] a.k = "fin" /\ b.k = "fin" ->
            LET g == GCD(a.d, b.d)
            IN Rat(a.n * (b.d \div g) + b.n * (a.d \div g), a.d * (b.d \div g))
      [] a.k = "fin" -> b
      [] b.k = "fin" -> a
      [] OTHER -> IF a.k = b.k THEN a ELSE NaN

Sub(a, b) == Add(a, Neg(b))

Mul(a, b) ==
    CASE a.k = "nan" \/ b.k = "nan" -> NaN
      [] a.k = "fin" /\ b.k = "fin" ->
            LET g1 == GCD(Abs(a.n), b.d)
                g2 == GCD(Abs(b.n), a.d)
            IN Rat((a.n \div g1) * (b.n \div g2), (a.d \div g2) * (b.d \div g1))
      [] OTHER -> LET s == Sign(a) * Sign(b)
                  IN IF s = 0 THEN NaN ELSE IF s > 0 THEN PInf ELSE NInf

\* IEEE division: x/0 is an infinity (0/0 is NaN), fin/inf is 0
Div(a, b) ==
    CASE a.k = "nan" \/ b.k = "nan" -> NaN
      [] a.k = "fin" /\ b.k = "fin" ->
            IF b.n # 0
              THEN LET g1 == GCD(Abs(a.n), Abs(b.n))
                       g2 == GCD(a.d, b.d)
                   IN Rat((a.n \div g1) * (b.d \div g2), (a.d \div g2) * (b.n \div g1))
            ELSE IF a.n = 0 THEN NaN ELSE IF a.n > 0 THEN PInf ELSE NInf
      [] a.k = "fin" -> Zero
      [] b.k = "fin" -> LET s == Sign(a) * (IF b.n < 0 THEN -1 ELSE 1)
                        IN IF s > 0 THEN PInf ELSE NInf
      [] OTHER -> NaN

\* Math.floor, Math.round (half up), Math.max, Math.min, Math.abs
MathFloor(a) == IF a.k = "fin" THEN Int2Num(a.n \div a.d) ELSE a
MathRound(a) == IF a.k = "fin" THEN Int2Num((2 * a.n + a.d) \div (2 * a.d)) ELSE a
MathMax(a, b) ==
    IF a.k = "nan" \/ b.k = "nan" THEN NaN ELSE IF Lt(a, b) THEN b ELSE a
MathMin(a, b) ==
    IF a.k = "nan" \/ b.k = "nan" THEN NaN ELSE IF Lt(b, a) THEN b ELSE a
MathAbs(a) == IF a.k = "nan" THEN NaN ELSE IF Sign(a) < 0 THEN Neg(a) ELSE a

NumberIsFinite(a) == a.k = "fin"
\* a number is falsy when it is 0 or NaN
Truthy(a) == a.k # "nan" /\ a # Zero
IsInteger(a) == a.k = "fin" /\ a.d = 1


-----------------------------------------------------------------------------
(***************************************************************************)
(* JavaScript values of a request body or query: undefined, null, a number *)
(* or a string.  A string is kept as its comma-separated pieces, so that   *)
(* split(",") is the list of pieces; a string without a comma is one piece.*)
(***************************************************************************)
RawUndef   == [t |-> "undefined", num |-> NaN, parts |-> <<>>, items |-> <<>>]
RawNull    == [t |-> "null",      num |-> NaN, parts |-> <<>>, items |-> <<>>]
RawNum(x)  == [t |-> "number",    num |-> x,   parts |-> <<>>, items |-> <<>>]
RawStr(s)  == [t |-> "string",    num |-> NaN, parts |-> <<s>>, items |-> <<>>]
RawList(p) == [t |-> "string",    num |-> NaN, parts |-> p,    items |-> <<>>]
\* an array of values
RawArr(xs) == [t |-> "array",     num |-> NaN, parts |-> <<>>, items |-> xs]

\* String.prototype.trim on the strings the model uses
Trim(s) ==
    CASE s = " "           -> ""
      [] s = " 90 "        -> "90"
      [] s = " 2025-03-12" -> "2025-03-12"
      [] OTHER             -> s

\* String.prototype.toLowerCase on the strings the model uses
ToLowerCase(s) ==
    CASE s = "PUT"  -> "put"
      [] s = "Put"  -> "put"
      [] s = "CALL" -> "call"
      [] OTHER      -> s

\* Number(string) of a trimmed string without a comma
StringToNumber(s) ==
    CASE s = ""         -> Zero
      [] s = "0"        -> Zero
      [] s = "1"        -> One
      [] s = "-3"       -> Int2Num(-3)
      [] s = "2.5"      -> Rat(5, 2)
      [] s = "30"       -> Int2Num(30)
      [] s = "40"       -> Int2Num(40)
      [] s = "90"       -> Int2Num(90)
      [] s = "100"      -> Int2Num(100)
      [] s = "500"      -> Int2Num(500)
      [] s = "200"      -> Int2Num(200)
      [] s = "5"        -> Int2Num(5)
      [] s = "-1"       -> Int2Num(-1)
      [] s = "0.05"     -> Rat(1, 20)
      [] s = "0.00"     -> Zero
      [] s = "-0.5"     -> Rat(-1, 2)
      [] s = "Infinity" -> PInf
      [] OTHER          -> NaN

\* Number(x)
Number(x) ==
    CASE x.t = "undefined" -> NaN
      [] x.t = "null"      -> Zero
      [] x.t = "number"    -> x.num
      [] x.t = "string"    -> IF Len(x.parts) = 1
                                THEN StringToNumber(Trim(x.parts[1]))
                                ELSE NaN
      [] OTHER             -> NaN   \* an array of several items (not used as a number)

\* whether a value is truthy
ValueTruthy(x) ==
    CASE x.t = "undefined" -> FALSE
      [] x.t = "null"      -> FALSE
      [] x.t = "number"    -> Truthy(x.num)
      [] x.t = "string"    -> ~(Len(x.parts) = 1 /\ x.parts[1] = "")
      [] OTHER             -> TRUE

\* s.trim() is a non-empty string
TrimNonEmpty(x) == ~(Len(x.parts) = 1 /\ Trim(x.parts[1]) = "")

-----------------------------------------------------------------------------
(***************************************************************************)
(* Dates.  A Date is its time in days since 1970-01-01 UTC, a number (a    *)
(* UTC midnight is a whole number of days); null is NoDate.                *)
(***************************************************************************)
NoDate == [ok |-> FALSE, day |-> NaN]
DateOf(n) == [ok |-> TRUE, day |-> n]

\* days since the epoch of the proleptic Gregorian date y-m-d, m in 1..12
DaysFromCivil(y, m, d) ==
    LET yy  == IF m <= 2 THEN y - 1 ELSE y
        era == yy \div 400
        yoe == yy - era * 400
        mp  == IF m > 2 THEN m - 3 ELSE m + 9
        doy == (153 * mp + 2) \div 5 + d - 1
        doe == yoe * 365 + yoe \div 4 - yoe \div 100 + doy
    IN era * 146097 + doe - 719468

\* <<year, month (1..12), day of month>> of a day number
CivilFromDays(z0) ==
    LET z   == z0 + 719468
        era == z \div 146097
        doe == z - era * 146097
        yoe == (doe - doe \div 1460 + doe \div 36524 - doe \div 146096) \div 365
        doy == doe - (365 * yoe + yoe \div 4 - yoe \div 100)
        mp  == (5 * doy + 2) \div 153
        d   == doy - (153 * mp + 2) \div 5 + 1
        m   == IF mp < 10 THEN mp + 3 ELSE mp - 9
        y   == yoe + era * 400 + (IF m <= 2 THEN 1 ELSE 0)
    IN <<y, m, d>>

\* Date.UTC(y, monthIndex, d) in days: years 0..99 mean 1900..1999, and a month
\* index or a day out of range rolls over
DateUTC(y, monthIndex, d) ==
    LET yf == IF y >= 0 /\ y <= 99 THEN 1900 + y ELSE y
        ym == yf + monthIndex \div 12
        mn == monthIndex % 12
    IN DaysFromCivil(ym, mn + 1, 1) + d - 1

\* the regular expression ^(\d{4})-(\d{2})-(\d{2})$ on the strings the model
\* uses: the three numbers, or <<>> when the string does not match
MatchYMD(s) ==
    CASE s = "2025-01-31" -> <<2025, 1, 31>>
      [] s = "2025-02-01" -> <<2025, 2, 1>>
      [] s = "2025-02-30" -> <<2025, 2, 30>>
      [] s = "2025-03-12" -> <<2025, 3, 12>>
      [] s = "2026-03-07" -> <<2026, 3, 7>>
      [] s = "2024-12-31" -> <<2024, 12, 31>>
      [] s = "2025-00-10" -> <<2025, 0, 10>>
      [] s = "0099-01-01" -> <<99, 1, 1>>
      [] OTHER            -> <<>>

parseISODate(x) ==
    IF x.t # "string" \/ Len(x.parts) # 1 THEN NoDate
    ELSE LET m == MatchYMD(Trim(x.parts[1]))
         IN IF m = <<>> THEN NoDate
            ELSE LET dt == DateUTC(m[1], m[2] - 1, m[3])
                     c  == CivilFromDays(dt)
                 IN IF c[1] # m[1] \/ c[2] - 1 # m[2] - 1 \/ c[3] # m[3]
                      THEN NoDate
                      ELSE DateOf(Int2Num(dt))

\* (b.getTime() - a.getTime()) / 86400000; the time of null is 0 in a subtraction,
\* and no caller passes null
daysBetweenUTC(a, b) == Sub(b.day, a.day)

-----------------------------------------------------------------------------
(***************************************************************************)
(* Bounds of the model                                                     *)
(***************************************************************************)
\* paths of a run whose steps are followed one by one; the later paths of the
\* run repeat the same loop body and are taken in one step
MaxPaths == 2
\* longest checkpointDays / checkpointDates list of a request
MaxCp == 2

-----------------------------------------------------------------------------
(***************************************************************************)
(* Black-Scholes pricer of leaps-sim.js.  The result records the branch    *)
(* that computed it; the intrinsic value is computed, the value of the two *)
(* other branches (exp, log, normCdf) is left as some real number.         *)
(***************************************************************************)
SomeReal == [k |-> "real", n |-> 0, d |-> 1]

Intrinsic(Sx, K, isCall) ==
    IF isCall THEN MathMax(Sub(Sx, K), Zero) ELSE MathMax(Sub(K, Sx), Zero)

\* the value of the closed formula: NaN when an argument is NaN or the
\* logarithm is taken of a negative ratio, else some real number
FormulaValue(Sx, K, T, r, q, sigma) ==
    IF \E x \in {Sx, K, T, r, q, sigma} : x.k = "nan" THEN NaN
    ELSE IF Sign(Sx) * Sign(K) < 0 THEN NaN
    ELSE SomeReal

\* the value of the zero-volatility branch
ForwardValue(Sx, K, T, r, q) ==
    IF \E x \in {Sx, K, T, r, q} : x.k = "nan" THEN NaN ELSE SomeReal

\* the zero-volatility branch tested before the expiry branch
bsPriceSigmaFirst(Sx, K, T, r, q, sigma, type) ==
    IF Le(sigma, Zero)
      THEN [branch |-> "forward", value |-> ForwardValue(Sx, K, T, r, q)]
    ELSE IF Le(T, Zero)
      THEN [branch |-> "intrinsic", value |-> Intrinsic(Sx, K, type = "call")]
    ELSE [branch |-> "formula", value |-> FormulaValue(Sx, K, T, r, q, sigma)]

bsPrice(Sx, K, T, r, q, sigma, type) ==
    IF Le(T, Zero)
      THEN [branch |-> "intrinsic", value |-> Intrinsic(Sx, K, type = "call")]
    ELSE IF Le(sigma, Zero)
      THEN [branch |-> "forward", value |-> ForwardValue(Sx, K, T, r, q)]
    ELSE [branch |-> "formula", value |-> FormulaValue(Sx, K, T, r, q, sigma)]

-----------------------------------------------------------------------------
(***************************************************************************)
(* simulate: the handler of leaps-sim.js                                   *)
(***************************************************************************)
MinSims     == 500
MaxSims     == 200000
DefaultSims == 20000
MaxSigma    == 5
yearBasis   == 365

clampBad(x, lo, hi) == MathMin(lo, MathMax(hi, x))
clamp(x, lo, hi) == MathMax(lo, MathMin(hi, x))

isFiniteNumber(x) == NumberIsFinite(x)

\* a || b on numbers
OrElse(a, b) == IF Truthy(a) THEN a ELSE b

\* the elements of a sequence, ascending, without repetition
RECURSIVE SortAsc(_)
SortAsc(set) ==
    IF set = {} THEN <<>>
    ELSE LET m == CHOOSE x \in set : \A y \in set : Le(x, y)
         IN <<m>> \o SortAsc(set \ {m})

\* the elements of a sequence, ascending, repetitions kept
RECURSIVE SortNums(_)
SortNums(seq) ==
    IF seq = <<>> THEN <<>>
    ELSE LET i == CHOOSE j \in DOMAIN seq : \A l \in DOMAIN seq : Le(seq[j], seq[l])
             rest == [l \in 1..(Len(seq) - 1) |-> IF l < i THEN seq[l] ELSE seq[l + 1]]
         IN <<seq[i]>> \o SortNums(rest)

SelectNums(seq) == SelectSeq(seq, LAMBDA n : NumberIsFinite(n) /\ Gt(n, Zero))

uniqueSortedPositiveIntsNoDedup(arr) ==
    SortNums(SelectNums([i \in DOMAIN arr |-> MathFloor(Number(arr[i]))]))

uniqueSortedPositiveInts(arr) ==
    LET set == {MathFloor(Number(arr[i])) : i \in DOMAIN arr}
    IN SortAsc({n \in set : NumberIsFinite(n) /\ Gt(n, Zero)})

\* a list of numbers as a list of JavaScript values
AsValues(nums) == [i \in DOMAIN nums |-> RawNum(nums[i])]

Includes(seq, x) == \E i \in DOMAIN seq : seq[i] = x

\* lines 153-165: the day offsets of checkpointDays
DaysFromCheckpointDays(checkpointDays) ==
    IF checkpointDays.t = "array"
      THEN uniqueSortedPositiveInts(checkpointDays.items)
    ELSE IF checkpointDays.t = "string" /\ TrimNonEmpty(checkpointDays)
      THEN uniqueSortedPositiveInts(
             LET trimmed == [i \in DOMAIN checkpointDays.parts |->
                               Trim(checkpointDays.parts[i])]
                 kept == SelectSeq(trimmed, LAMBDA t : t # "")
             IN [i \in DOMAIN kept |-> RawStr(kept[i])])
    ELSE <<>>

\* lines 168-173 and 176-181: the day offsets pushed for a list of date values
RECURSIVE DaysFromDateList(_, _)
DaysFromDateList(cur, list) ==
    IF list = <<>> THEN <<>>
    ELSE LET dt == parseISODate(Head(list))
             d  == daysBetweenUTC(cur, dt)
             rest == DaysFromDateList(cur, Tail(list))
         IN IF ~dt.ok THEN rest
            ELSE IF Gt(d, Rat(1, 2)) THEN <<MathRound(d)>> \o rest
            ELSE rest

\* lines 167-182: the day offsets of checkpointDates
DaysFromCheckpointDates(cur, checkpointDates) ==
    IF checkpointDates.t = "array" /\ Len(checkpointDates.items) > 0
      THEN DaysFromDateList(cur, checkpointDates.items)
    ELSE IF checkpointDates.t = "string" /\ TrimNonEmpty(checkpointDates)
      THEN DaysFromDateList(cur, [i \in DOMAIN checkpointDates.parts |->
                                    RawStr(Trim(checkpointDates.parts[i]))])
    ELSE <<>>

\* lines 184-188: keep within (0, totalDays], unique, sorted
CleanCheckpoints(cp, maxD) ==
    LET u == uniqueSortedPositiveInts(AsValues(cp))
        mapped == [i \in DOMAIN u |-> clamp(u[i], One, maxD)]
    IN SelectSeq(mapped, LAMBDA d : Le(d, maxD))

\* the default checkpoints without the clamp to the horizon
DefaultCheckpointsNoClamp(maxD) ==
    uniqueSortedPositiveInts(
       AsValues([i \in 1..4 |-> Int2Num(<<30, 90, 180, 365>>[i])]))

\* lines 190-194: the default checkpoints
DefaultCheckpoints(maxD) ==
    LET defaults == [i \in 1..4 |->
                       clamp(Int2Num(<<30, 90, 180, 365>>[i]), One, maxD)]
    IN uniqueSortedPositiveInts(AsValues(defaults))

\* lines 184-198: clean, substitute the defaults, include the expiry
FinalCpDays(cp0, totalDays) ==
    LET maxD == MathFloor(totalDays)
        cp1 == CleanCheckpoints(cp0, maxD)
        cp2 == IF Len(cp1) = 0 THEN DefaultCheckpoints(maxD) ELSE cp1
        cp3 == IF ~Includes(cp2, maxD) THEN Append(cp2, maxD) ELSE cp2
    IN uniqueSortedPositiveInts(AsValues(cp3))

\* lines 202-209
cpT(cp) == [i \in DOMAIN cp |-> Div(cp[i], Int2Num(yearBasis))]
dtYears(cp) ==
    [i \in DOMAIN cp |-> Sub(cpT(cp)[i], IF i = 1 THEN Zero ELSE cpT(cp)[i - 1])]

-----------------------------------------------------------------------------
(***************************************************************************)
(* The requests the model sends to simulate                                *)
(***************************************************************************)
\* all sequences over a set, of length 0..n
RECURSIVE SeqsUpTo(_, _)
SeqsUpTo(set, n) ==
    IF n = 0 THEN {<<>>}
    ELSE LET shorter == SeqsUpTo(set, n - 1)
         IN shorter \cup {Append(q, x) : q \in shorter, x \in set}

SpotInputs     == {RawStr("100"), RawNum(Zero), RawStr("abc")}
StrikeInputs   == {RawNum(Int2Num(100)), RawNum(Int2Num(-5)), RawUndef}
IvInputs       == {RawNum(Zero), RawNum(Int2Num(5)), RawNum(Rat(-1, 10)),
                   RawNum(Rat(51, 10)), RawStr("abc")}
RateInputs     == {RawNum(Rat(1, 20)), RawUndef}
DividendInputs == {RawNull, RawStr("Infinity")}
TypeInputs     == {RawUndef, RawStr("PUT"), RawStr("straddle"), RawNum(One)}
PremiumPaidInputs == {RawNum(Int2Num(5)), RawNum(Int2Num(-1)), RawUndef}
ContractsInputs   == {RawUndef, RawNum(Rat(5, 2)), RawStr("Infinity")}
NSimsInputs    == {RawUndef, RawNum(Zero), RawNum(Int2Num(100)), RawNum(Int2Num(1000)),
                   RawNum(Rat(1401, 2)), RawNum(Int2Num(300000)), RawStr("abc")}

CurrentDateInputs == {RawStr("2025-01-31"), RawStr("2025-02-30"), RawUndef}
ExpiryDateInputs  == {RawStr("2025-02-01"), RawStr("2025-03-12"), RawStr("2026-03-07"),
                      RawStr("2025-01-31"), RawStr("2024-12-31"), RawStr("2025-00-10"),
                      RawStr("0099-01-01"), RawStr("2025/03/12")}

CpDayItems  == {RawNum(Int2Num(30)), RawNum(Int2Num(500)), RawNum(Rat(5, 2)), RawStr("abc")}
CpDayPieces == {"30", " 90 ", ""}
CheckpointDaysInputs ==
    {RawUndef} \cup {RawArr(q) : q \in SeqsUpTo(CpDayItems, MaxCp)}
      \cup {RawList(q) : q \in SeqsUpTo(CpDayPieces, MaxCp) \ {<<>>}}

CpDateItems  == {RawStr("2025-03-12"), RawStr("2024-12-31"), RawStr("2025-02-30")}
CpDatePieces == {" 2025-03-12", "abc"}
CheckpointDatesInputs ==
    {RawUndef} \cup {RawArr(q) : q \in SeqsUpTo(CpDateItems, MaxCp)}
      \cup {RawList(q) : q \in SeqsUpTo(CpDatePieces, MaxCp) \ {<<>>}}

\* the factors exp(...) by which a path's price moves over one segment: any
\* positive real; the model takes these
StepFactors == {Rat(1, 2), Int2Num(2)}

-----------------------------------------------------------------------------
NoLoc == [S0 |-> NaN, K |-> NaN, sigma |-> NaN, r |-> NaN, q |-> NaN,
          optType |-> "", paid |-> NaN, qty |-> NaN, sims |-> NaN]
NoDates == [read |-> FALSE, cur |-> NoDate, exp |-> NoDate, totalDays |-> NaN]
NoCall  == [Sx |-> NaN, K |-> NaN, T |-> NaN, sigma |-> NaN,
            branch |-> "", value |-> NaN, pnl |-> NaN]
NoRes   == [status |-> 0, keys |-> {}, error |-> ""]

Reject(msg) == [status |-> 400, keys |-> {"ok", "error"}, error |-> msg]
ServerError == [status |-> 500, keys |-> {"ok", "error", "detail"},
                error |-> "Server error"]
Result == [status |-> 200,
           keys |-> {"ok", "inputs", "checkpoints", "sampled", "notes"},
           error |-> ""]

\* line 127: (type || "call").toLowerCase() throws when type is truthy and
\* not a string
TypeThrows(type) == ValueTruthy(type) /\ type.t # "string"
OptTypeOf(type) ==
    LET t == IF ValueTruthy(type) THEN type.parts[1] ELSE "call"
    IN IF ToLowerCase(t) = "put" THEN "put" ELSE "call"

QtyOf(contracts) == MathMax(One, MathFloor(OrElse(Number(contracts), One)))
SimsOfNoDefault(nSims) ==
    clamp(MathFloor(Number(nSims)), Int2Num(MinSims), Int2Num(MaxSims))
SimsOf(nSims) ==
    clamp(MathFloor(OrElse(Number(nSims), Int2Num(DefaultSims))),
          Int2Num(MinSims), Int2Num(MaxSims))

\* lines 103-130: read the request and normalize its numeric fields
Normalize ==
    /\ pc = "start" /\ sc.page = "none" /\ anOut.kind = "none" /\ qt.kind = "none"
    /\ sm.kind = "none"
    /\ \E spot \in SpotInputs, strike \in StrikeInputs, iv \in IvInputs,
          rate \in RateInputs, dividend \in DividendInputs, type \in TypeInputs,
          premiumPaid \in PremiumPaidInputs, contracts \in ContractsInputs,
          nSims \in NSimsInputs :
          LET early == [NoLoc EXCEPT !.S0 = Number(spot), !.K = Number(strike),
                                     !.sigma = Number(iv), !.r = Number(rate),
                                     !.q = Number(dividend)]
          IN /\ rawNSims' = nSims
             /\ IF TypeThrows(type)
                  THEN /\ loc' = early
                       /\ res' = ServerError
                       /\ pc' = "done"
                  ELSE /\ loc' = [early EXCEPT !.optType = OptTypeOf(type),
                                               !.paid = Number(premiumPaid),
                                               !.qty = QtyOf(contracts),
                                               !.sims = SimsOf(nSims)]
                       /\ res' = res
                       /\ pc' = "normalized"
    /\ UNCHANGED <<dates, cpDays, path, ci, S, lastCall, nVals>>
    /\ UNCHANGED <<written, draw>>
    /\ UNCHANGED <<scVars, anVars, qtVars, smVars>>
    /\ UNCHANGED uiVars

NumericInvalid(l) ==
    \/ ~(\A x \in {l.S0, l.K, l.sigma, l.r, l.q, l.paid} : isFiniteNumber(x))
    \/ Le(l.S0, Zero)
    \/ Le(l.K, Zero)

SigmaInvalid(l) == Lt(l.sigma, Zero) \/ Gt(l.sigma, Int2Num(MaxSigma))

\* lines 132-137
ValidateNumeric ==
    /\ pc = "normalized"
    /\ IF NumericInvalid(loc)
         THEN res' = Reject("Invalid numeric inputs.") /\ pc' = "done"
       ELSE IF SigmaInvalid(loc)
         THEN res' = Reject("IV must be between 0 and 5 (i.e., 0% to 500%).")
              /\ pc' = "done"
       ELSE res' = res /\ pc' = "validated"
    /\ UNCHANGED <<loc, rawNSims, dates, cpDays, path, ci, S, lastCall, nVals>>
    /\ UNCHANGED <<written, draw>>
    /\ UNCHANGED <<scVars, anVars, qtVars, smVars>>
    /\ UNCHANGED uiVars

HorizonInvalid(totalDays) == ~NumberIsFinite(totalDays) \/ Le(totalDays, Rat(1, 2))

\* lines 139-148
ParseDates ==
    /\ pc = "validated"
    /\ \E currentDate \in CurrentDateInputs, expiryDate \in ExpiryDateInputs :
          LET cur == parseISODate(currentDate)
              exp == parseISODate(expiryDate)
              totalDays == daysBetweenUTC(cur, exp)
          IN IF ~cur.ok \/ ~exp.ok
               THEN /\ res' = Reject("currentDate / expiryDate must be YYYY-MM-DD.")
                    /\ dates' = [NoDates EXCEPT !.read = TRUE, !.cur = cur, !.exp = exp]
                    /\ pc' = "done"
             ELSE IF HorizonInvalid(totalDays)
               THEN /\ res' = Reject("expiryDate must be after currentDate.")
                    /\ dates' = [read |-> TRUE, cur |-> cur, exp |-> exp,
                                 totalDays |-> totalDays]
                    /\ pc' = "done"
             ELSE /\ res' = res
                  /\ dates' = [read |-> TRUE, cur |-> cur, exp |-> exp,
                                 totalDays |-> totalDays]
                  /\ pc' = "dated"
    /\ UNCHANGED <<loc, rawNSims, cpDays, path, ci, S, lastCall, nVals>>
    /\ UNCHANGED <<written, draw>>
    /\ UNCHANGED <<scVars, anVars, qtVars, smVars>>
    /\ UNCHANGED uiVars

\* lines 150-165: the checkpoints given as day offsets
ReadCheckpointDays ==
    /\ pc = "dated"
    /\ \E checkpointDays \in CheckpointDaysInputs :
          cpDays' = DaysFromCheckpointDays(checkpointDays)
    /\ pc' = "cpdays"
    /\ UNCHANGED <<loc, rawNSims, dates, path, ci, S, lastCall, nVals, res>>
    /\ UNCHANGED <<written, draw>>
    /\ UNCHANGED <<scVars, anVars, qtVars, smVars>>
    /\ UNCHANGED uiVars

\* lines 167-182: the checkpoints given as dates
ReadCheckpointDates ==
    /\ pc = "cpdays"
    /\ \E checkpointDates \in CheckpointDatesInputs :
          cpDays' = cpDays \o DaysFromCheckpointDates(dates.cur, checkpointDates)
    /\ pc' = "cpdates"
    /\ UNCHANGED <<loc, rawNSims, dates, path, ci, S, lastCall, nVals, res>>
    /\ UNCHANGED <<written, draw>>
    /\ UNCHANGED <<scVars, anVars, qtVars, smVars>>
    /\ UNCHANGED uiVars

\* lines 184-215: the final checkpoint list, the time steps, the output arrays
FinishCheckpoints ==
    /\ pc = "cpdates"
    /\ cpDays' = FinalCpDays(cpDays, dates.totalDays)
    /\ path' = Zero
    /\ ci' = 1
    /\ S' = loc.S0
    /\ pc' = "loop"
    /\ UNCHANGED <<loc, rawNSims, dates, lastCall, nVals, res>>
    /\ UNCHANGED <<written, draw>>
    /\ UNCHANGED <<scVars, anVars, qtVars, smVars>>
    /\ UNCHANGED uiVars

\* line 225 with the time elapsed in place of the time remaining
T_elapsed(cp, i) == MathMax(cpT(cp)[i], Zero)

\* line 225
T_remain(cp, i) == MathMax(Sub(cpT(cp)[Len(cp)], cpT(cp)[i]), Zero)

\* line 227; the value of a branch that is not computed stays some real number
PnlOf(V, paid, qty) ==
    IF V.k = "real" THEN SomeReal
    ELSE Mul(Mul(Sub(V, paid), Int2Num(100)), qty)

\* the steps of randn inside the loop body leave the rest of the run alone
RandnFrame ==
    /\ UNCHANGED <<pc, loc, rawNSims, dates, cpDays, path, ci, S, lastCall, nVals,
                  res, written, scVars, anVars, qtVars, smVars>>
    /\ UNCHANGED uiVars

\* line 63: while (u === 0) u = Math.random() ends, on a value that is not 0;
\* a draw of 0 changes nothing and the loop goes on
DrawU ==
    /\ pc = "loop" /\ Lt(path, loc.sims) /\ Lt(path, Int2Num(MaxPaths))
    /\ draw = "u"
    /\ draw' = "v"
    /\ RandnFrame

\* line 64 going back to the loop of line 63
DrawVAgain ==
    /\ pc = "loop" /\ Lt(path, loc.sims) /\ Lt(path, Int2Num(MaxPaths))
    /\ draw = "v"
    /\ draw' = "u"
    /\ RandnFrame

\* line 64: while (v === 0) v = Math.random() ends, and line 65 gives z
DrawV ==
    /\ pc = "loop" /\ Lt(path, loc.sims) /\ Lt(path, Int2Num(MaxPaths))
    /\ draw = "v"
    /\ draw' = "z"
    /\ RandnFrame

\* lines 229-231: the slot [i][path] of the output arrays is assigned
WriteSlot(w, slot) ==
    [k \in DOMAIN w \cup {slot} |->
       IF k = slot THEN (IF slot \in DOMAIN w THEN w[slot] + 1 ELSE 1) ELSE w[k]]

\* lines 219-232: one pass of the inner loop body, for one of the first paths
PathStep ==
    /\ pc = "loop"
    /\ Lt(path, loc.sims)
    /\ Lt(path, Int2Num(MaxPaths))
    /\ ci <= Len(cpDays)
    /\ draw = "z"
    /\ \E step \in StepFactors :
          LET Sprev == IF ci = 1 THEN loc.S0 ELSE S
              Snew  == Mul(Sprev, step)
              T     == T_remain(cpDays, ci)
              V     == bsPrice(Snew, loc.K, T, loc.r, loc.q, loc.sigma, loc.optType)
          IN /\ S' = Snew
             /\ lastCall' = [Sx |-> Snew, K |-> loc.K, T |-> T, sigma |-> loc.sigma,
                             branch |-> V.branch, value |-> V.value,
                             pnl |-> PnlOf(V.value, loc.paid, loc.qty)]
    /\ written' = WriteSlot(written, <<ci, path.n>>)
    /\ draw' = "u"
    /\ nVals' = nVals + 1
    /\ IF ci = Len(cpDays)
         THEN path' = Add(path, One) /\ ci' = 1
         ELSE path' = path /\ ci' = ci + 1
    /\ UNCHANGED <<pc, loc, rawNSims, dates, cpDays, res>>
    /\ UNCHANGED <<scVars, anVars, qtVars, smVars>>
    /\ UNCHANGED uiVars

\* lines 217-233: the remaining paths of the run, each the same loop body
RemainingPaths ==
    /\ pc = "loop"
    /\ Lt(path, loc.sims)
    /\ ~Lt(path, Int2Num(MaxPaths))
    /\ nVals' = nVals + (loc.sims.n - path.n) * Len(cpDays)
    /\ path' = loc.sims
    /\ UNCHANGED <<pc, loc, rawNSims, dates, cpDays, ci, S, lastCall, res>>
    /\ UNCHANGED <<written, draw>>
    /\ UNCHANGED <<scVars, anVars, qtVars, smVars>>
    /\ UNCHANGED uiVars

\* lines 261-313: summarize and answer
Respond ==
    /\ pc = "loop"
    /\ ~Lt(path, loc.sims)
    /\ res' = Result
    /\ pc' = "done"
    /\ UNCHANGED <<loc, rawNSims, dates, cpDays, path, ci, S, lastCall, nVals>>
    /\ UNCHANGED <<written, draw>>
    /\ UNCHANGED <<scVars, anVars, qtVars, smVars>>
    /\ UNCHANGED uiVars

InitSimVars ==
    /\ pc = "start"
    /\ loc = NoLoc
    /\ rawNSims = RawUndef
    /\ dates = NoDates
    /\ cpDays = <<>>
    /\ path = Zero
    /\ ci = 1
    /\ S = NaN
    /\ lastCall = NoCall
    /\ nVals = 0
    /\ res = NoRes
    /\ written = <<>>
    /\ draw = "u"

-----------------------------------------------------------------------------
(***************************************************************************)
(* The other Black-Scholes pricers                                         *)
(***************************************************************************)
JsNull == [k |-> "null", n |-> 0, d |-> 1]
NoPrice == [branch |-> "null", value |-> JsNull]

\* leaps-scenario.js (src/pages/api/leaps-scenario.js)
bsPriceScenarioPage(Sx, K, T, r, q, sigma, type) ==
    IF Le(T, Zero)
      THEN [branch |-> "intrinsic", value |-> Intrinsic(Sx, K, type = "call")]
    ELSE IF Le(sigma, Zero)
      THEN [branch |-> "forward", value |-> ForwardValue(Sx, K, T, r, q)]
    ELSE [branch |-> "formula", value |-> FormulaValue(Sx, K, T, r, q, sigma)]

\* leaps.js (src/unnamed/part_004)
bsPriceLeaps(Sx, K, T, r, q, sigma, isCall) ==
    IF ~Gt(Sx, Zero) \/ ~Gt(K, Zero) THEN NoPrice
    ELSE IF ~Ge(sigma, Zero) THEN NoPrice
    ELSE IF Le(T, Zero)
      THEN [branch |-> "intrinsic", value |-> Intrinsic(Sx, K, isCall)]
    ELSE IF NumEq(sigma, Zero)
      THEN [branch |-> "forward", value |-> ForwardValue(Sx, K, T, r, q)]
    ELSE [branch |-> "formula", value |-> FormulaValue(Sx, K, T, r, q, sigma)]

\* leaps-scenario.js of the LeapsScenario page (src/unnamed/part_003)
bsPriceLeapsScenario(Sx, K, r, q, sigma, T, isCall) ==
    IF ~Gt(Sx, Zero) \/ ~Gt(K, Zero) \/ ~Gt(sigma, Zero) \/ ~Gt(T, Zero)
      THEN NoPrice
    ELSE [branch |-> "formula", value |-> FormulaValue(Sx, K, T, r, q, sigma)]

-----------------------------------------------------------------------------
(***************************************************************************)
(* The scenario evaluators: the scenario memo of the three scenario pages. *)
(* Each takes the selected contract of the loaded chain and the page's text *)
(* inputs.  The local time zone of the browser is taken to be UTC.          *)
(***************************************************************************)
\* the day the pages take as today (todayISO), and the contract's expiration
TodayString == "2025-01-31"
ExpirationDay == DaysFromCivil(2025, 3, 12)

StrikeValues == {RawNum(Int2Num(100)), RawNull, RawNum(Int2Num(-5))}
IvValues     == {RawNum(Rat(1, 5)), RawNum(Zero), RawNum(Rat(1, 2000)),
                 RawNum(Rat(1, 4000)), RawUndef}
ScenarioDateInputs ==
    {"2025-01-31", "2025-03-12", "2026-03-07", "2024-12-31", "2025-02-30", "abc"}
ScenarioSpotInputs == {"200", "0", "abc"}
RateTextInputs     == {"0.05", "abc"}
DivYieldInputs     == {"0.00", "abc"}
IvShiftInputs      == {"0.00", "-0.5", "abc"}
PremiumTextInputs  == {"", "5", "-1"}
Sides              == {"call", "put"}

ScenarioInputs(which) ==
    [page : {which}, strike : StrikeValues, impliedVolatility : IvValues,
     scenarioDate : ScenarioDateInputs, scenarioSpot : ScenarioSpotInputs,
     rate : RateTextInputs, divYield : DivYieldInputs, ivShift : IvShiftInputs,
     premiumPaid : PremiumTextInputs, side : Sides]

NoScenario == [page |-> "none"]
NoOut == [kind |-> "none", error |-> "", called |-> FALSE,
          Sx |-> NaN, K |-> NaN, T |-> NaN, sigma |-> NaN,
          branch |-> "", theo |-> JsNull, pnl |-> JsNull]
ErrorOut(msg) == [NoOut EXCEPT !.kind = "error", !.error = msg]
\* the result of an evaluation that called the pricer
CalledOut(kind, Sx, K, T, sigma, price, pnl) ==
    [kind |-> kind, error |-> "", called |-> TRUE, Sx |-> Sx, K |-> K, T |-> T,
     sigma |-> sigma, branch |-> price.branch, theo |-> price.value, pnl |-> pnl]

\* (theo - paid) * k, on a price that may be some real number
PnlPer(theo, paid, k) ==
    IF theo.k = "real" THEN SomeReal ELSE Mul(Sub(theo, paid), Int2Num(k))

\* src/pages/api/leaps-scenario.js lines 147-148 without the floors at 0
ScenarioPageArgsNoFloor(iv0, shift, dToExpiryFromScenario) ==
    [sigma |-> Add(iv0, shift),
     T |-> Div(dToExpiryFromScenario, Int2Num(yearBasis))]

\* src/pages/api/leaps-scenario.js lines 147-148
ScenarioPageArgs(iv0, shift, dToExpiryFromScenario) ==
    [sigma |-> MathMax(Zero, Add(iv0, shift)),
     T |-> MathMax(Zero, Div(dToExpiryFromScenario, Int2Num(yearBasis)))]

\* src/pages/api/leaps-scenario.js lines 118-169, with a chain loaded and a
\* contract selected
ScenarioPageEval(in) ==
    LET cur  == parseISODate(RawStr(TodayString))
        scen == parseISODate(RawStr(in.scenarioDate))
        exp  == DateOf(Int2Num(ExpirationDay))
        dToScenario == daysBetweenUTC(cur, scen)
        dToExpiryFromScenario == daysBetweenUTC(scen, exp)
        Sx    == Number(RawStr(in.scenarioSpot))
        K     == Number(in.strike)
        r     == Number(RawStr(in.rate))
        q     == Number(RawStr(in.divYield))
        iv0   == Number(in.impliedVolatility)
        shift == Number(RawStr(in.ivShift))
        args  == ScenarioPageArgs(iv0, shift, dToExpiryFromScenario)
        theo  == bsPriceScenarioPage(Sx, K, args.T, r, q, args.sigma, in.side)
        paid  == Number(RawStr(in.premiumPaid))
        hasPaid == NumberIsFinite(paid) /\ Ge(paid, Zero)
    IN IF ~cur.ok \/ ~scen.ok THEN ErrorOut("Scenario date must be YYYY-MM-DD")
       ELSE IF Lt(dToScenario, Zero)
         THEN ErrorOut("Scenario date must be today or later.")
       ELSE IF Lt(dToExpiryFromScenario, Zero)
         THEN ErrorOut("Scenario date must be on/before expiration.")
       ELSE IF ~NumberIsFinite(Sx) \/ Le(Sx, Zero)
         THEN ErrorOut("Scenario spot must be > 0")
       ELSE IF \E x \in {K, r, q, iv0, shift} : ~NumberIsFinite(x)
         THEN ErrorOut("Invalid numeric assumptions.")
       ELSE CalledOut("ok", Sx, K, args.T, args.sigma, theo,
                      IF hasPaid THEN PnlPer(theo.value, paid, 100) ELSE JsNull)

\* src/unnamed/part_003 lines 30-33
clampNumber(x, fallback) ==
    LET n == Number(x) IN IF NumberIsFinite(n) THEN n ELSE fallback

\* split("-").map(Number) on the strings the model uses: a string the date
\* pattern matches splits into its three numbers, another one into NaN
SplitYMD(s) == MatchYMD(s)

\* src/unnamed/part_003 lines 21-28, in a browser whose time zone is UTC
parseYMDToMs(ymd) ==
    LET p == SplitYMD(ymd)
    IN IF ymd = "" \/ p = <<>> THEN NoDate
       ELSE IF p[1] = 0 \/ p[2] = 0 \/ p[3] = 0 THEN NoDate
       ELSE DateOf(Int2Num(DateUTC(p[1], p[2] - 1, p[3])))

IvThreshold == Rat(1, 2000)

\* line 220 with the threshold itself let through
MaterialSigmaInclusive(sigmaRaw) ==
    IF Ge(sigmaRaw, IvThreshold) THEN sigmaRaw ELSE NaN

\* src/unnamed/part_003 line 220
MaterialSigma(sigmaRaw) ==
    IF Gt(sigmaRaw, IvThreshold) THEN sigmaRaw ELSE NaN

\* src/unnamed/part_003 lines 192-236 (scenarioMs, daysToExpiry, T, theo), with
\* a contract selected and the expiry of the loaded chain
LeapsScenarioEval(in) ==
    LET sc0  == parseYMDToMs(in.scenarioDate)
        ex   == Int2Num(ExpirationDay)
        Sx   == clampNumber(RawStr(in.scenarioSpot), NaN)
        K    == clampNumber(in.strike, NaN)
        rr   == clampNumber(RawStr(in.rate), NaN)
        qq   == clampNumber(RawStr(in.divYield), Zero)
        shift == clampNumber(RawStr(in.ivShift), Zero)
        baseIv == clampNumber(in.impliedVolatility, NaN)
        sigmaRaw == Add(baseIv, shift)
        sigma == MaterialSigma(sigmaRaw)
        t    == Div(Sub(ex, sc0.day), Int2Num(yearBasis))
        price == bsPriceLeapsScenario(Sx, K, rr, qq, sigma, t, in.side # "put")
        shown == IF price.value.k \in {"fin", "real"} THEN price
                 ELSE [price EXCEPT !.value = JsNull]
    IN IF ~sc0.ok THEN [NoOut EXCEPT !.kind = "null"]
       ELSE IF ~Gt(t, Zero) THEN [NoOut EXCEPT !.kind = "null"]
       ELSE CalledOut(IF shown.value = JsNull THEN "null" ELSE "ok",
                      Sx, K, t, sigma, shown,
                      IF in.premiumPaid = "" \/ shown.value = JsNull THEN JsNull
                      ELSE PnlPer(shown.value,
                                  clampNumber(RawStr(in.premiumPaid), Zero), 1))

\* src/unnamed/part_004 lines 154-204, with a contract selected
LeapsPageEval(in) ==
    LET K    == Number(in.strike)
        iv0  == Number(in.impliedVolatility)
        scenDt == parseISODate(RawStr(in.scenarioDate))
        expUTC == DateOf(MathFloor(Int2Num(ExpirationDay)))
        tDays == daysBetweenUTC(scenDt, expUTC)
        T    == Div(tDays, Int2Num(yearBasis))
        Sx   == Number(RawStr(in.scenarioSpot))
        rr   == Number(RawStr(in.rate))
        qq   == Number(RawStr(in.divYield))
        shift == Number(RawStr(in.ivShift))
        sigma == MathMax(Zero, Add(iv0, shift))
        theo == bsPriceLeaps(Sx, K, T, rr, qq, sigma, in.side = "call")
        paid == IF in.premiumPaid = "" THEN JsNull ELSE Number(RawStr(in.premiumPaid))
    IN IF ~Gt(K, Zero) THEN ErrorOut("Strike")
       ELSE IF ~Ge(iv0, Zero) THEN ErrorOut("IV")
       ELSE IF ~scenDt.ok THEN ErrorOut("Scenario date")
       ELSE IF ~Gt(Sx, Zero) THEN ErrorOut("Scenario underlying price S")
       ELSE IF \E x \in {rr, qq, shift} : ~NumberIsFinite(x)
         THEN ErrorOut("r/q/IV shift")
       ELSE IF theo.value = JsNull
         THEN [CalledOut("error", Sx, K, T, sigma, theo, JsNull)
                 EXCEPT !.error = "calculation failed"]
       ELSE CalledOut("ok", Sx, K, T, sigma, theo,
                      IF paid # JsNull /\ NumberIsFinite(paid)
                        THEN PnlPer(theo.value, paid, 1) ELSE JsNull)

-----------------------------------------------------------------------------
(***************************************************************************)
(* analyze: the return-risk analyzer of index.js.  A point is a record of  *)
(* its date (its position in the calendar) and its close.                  *)
(***************************************************************************)
\* longest price series given to analyze
MaxPoints == 4

Closes == {Int2Num(100), Int2Num(90), Int2Num(108), Zero}

PointsOf(closes) == [i \in DOMAIN closes |-> [date |-> i, close |-> closes[i]]]

\* a series of len closes: head, then pattern over and over
LongSeries(head, pattern, len) ==
    [i \in 1..len |->
       IF i <= Len(head) THEN Int2Num(head[i])
       ELSE Int2Num(pattern[((i - Len(head) - 1) % Len(pattern)) + 1])]

LongLengths  == {10, 11, 12, 252, 253, 254}
LongHeads    == {<<>>, <<400>>}
LongPatterns == {<<100, 50>>, <<100, 200, 50>>, <<100, 100>>}

\* series whose returns are small: 1/64 and 1/32; 1/64, 1/32 and 3/64
QuietSeries ==
    {<<Int2Num(4096), Int2Num(4160), Int2Num(4290)>>,
     <<Int2Num(262144), Int2Num(266240), Int2Num(274560), Int2Num(287430)>>}

\* the inputs: no series at all, a series of 0..MaxPoints points, or one of
\* the longer series
AnalyzeInputs ==
    {[given |-> FALSE, points |-> <<>>]}
      \cup {[given |-> TRUE, points |-> PointsOf(c)] : c \in SeqsUpTo(Closes, MaxPoints)}
      \cup {[given |-> TRUE, points |-> PointsOf(LongSeries(h, p, len))] :
              h \in LongHeads, p \in LongPatterns, len \in LongLengths}
      \cup {[given |-> TRUE, points |-> PointsOf(c)] : c \in QuietSeries}

\* lines 56-62
ReturnsOf(closes) ==
    [i \in 1..(Len(closes) - 1) |-> Sub(Div(closes[i + 1], closes[i]), One)]

\* the loop of lines 66-68 over factors[lo..hi], run as two halves, the first to
\* its end before the second begins: each factor multiplies the last equity and is pushed
RECURSIVE EquityFrom(_, _, _, _)
EquityFrom(factors, lo, hi, equity) ==
    IF lo > hi THEN equity
    ELSE IF lo = hi THEN Append(equity, Mul(equity[Len(equity)], factors[lo]))
    ELSE LET mid == (lo + hi) \div 2
             first == EquityFrom(factors, lo, mid, equity)
         IN IF Len(first) = 0 THEN first
            ELSE EquityFrom(factors, mid + 1, hi, first)

\* the equity folded without the 1 + of line 67
EquityOfNoOne(returns) == EquityFrom(returns, 1, Len(returns), <<One>>)

\* lines 65-68
EquityOf(returns) ==
    EquityFrom([i \in DOMAIN returns |-> Add(One, returns[i])],
               1, Len(returns), <<One>>)

\* the value undefined, where a number is expected
Undefined == [k |-> "undef", n |-> 0, d |-> 1]

\* arr.reduce((s, x) => s + x, 0) over arr[lo..hi], summed as two halves
RECURSIVE SumFrom(_, _, _)
SumFrom(arr, lo, hi) ==
    IF lo > hi THEN Zero
    ELSE IF lo = hi THEN arr[lo]
    ELSE LET mid == (lo + hi) \div 2
         IN Add(SumFrom(arr, lo, mid), SumFrom(arr, mid + 1, hi))

SumNums(arr) == SumFrom(arr, 1, Len(arr))

\* the integer square root of n >= 0, between lo and hi (lo*lo <= n)
RECURSIVE ISqrtBetween(_, _, _)
ISqrtBetween(n, lo, hi) ==
    IF hi - lo <= 1 THEN lo
    ELSE LET mid == (lo + hi) \div 2
         IN IF mid <= n \div mid THEN ISqrtBetween(n, mid, hi)
            ELSE ISqrtBetween(n, lo, mid)

ISqrt(n) == ISqrtBetween(n, 0, 46341)

IsSquare(n) == ISqrt(n) * ISqrt(n) = n

\* the irrational number sqrt(n/d), n/d > 0 in lowest terms and not a square
SqrtOf(n, d) == [k |-> "sqrt", n |-> n, d |-> d]

\* Math.sqrt, exactly: a rational where the argument is a square
MathSqrt(a) ==
    CASE a.k = "nan" \/ a.k = "ninf" -> NaN
      [] a.k = "pinf" -> PInf
      [] OTHER -> IF a.n < 0 THEN NaN
                  ELSE IF IsSquare(a.n) /\ IsSquare(a.d)
                    THEN Rat(ISqrt(a.n), ISqrt(a.d))
                  ELSE SqrtOf(a.n, a.d)

\* index.js lines 14-18, on a rational x
round(x, digits) ==
    IF x = Undefined \/ ~NumberIsFinite(x) THEN x
    ELSE LET m == Int2Num(10 ^ digits)
         IN Div(MathRound(Mul(x, m)), m)

\* clamp letting every value through
clampIndexNone(x, lo, hi) == x

\* index.js lines 46-48
clampIndex(x, lo, hi) == MathMax(lo, MathMin(hi, x))

\* stddev giving 0 where there are fewer than 2 values
stddevZero(arr) ==
    LET n == Len(arr)
        mean == Div(SumNums(arr), Int2Num(n))
        sq == [i \in DOMAIN arr |-> LET dv == Sub(arr[i], mean) IN Mul(dv, dv)]
    IN IF n < 2 THEN Zero
       ELSE MathSqrt(Div(SumNums(sq), Int2Num(n - 1)))

\* index.js lines 20-26
stddev(arr) ==
    LET n == Len(arr)
        mean == Div(SumNums(arr), Int2Num(n))
        sq == [i \in DOMAIN arr |-> LET dv == Sub(arr[i], mean) IN Mul(dv, dv)]
        varSum == SumNums(sq)
    IN IF n < 2 THEN Undefined
       ELSE MathSqrt(Div(varSum, Int2Num(n - 1)))

\* a stable ascending sort by key: the element at i goes behind the smaller
\* ones and behind the equal ones that came before it
StableOrder(keys) ==
    LET n == Len(keys)
        place == SubSeq([i \in 1..n |->
                    1 + Cardinality({j \in 1..n : Lt(keys[j], keys[i])
                                        \/ (j < i /\ ~Lt(keys[i], keys[j]))})], 1, n)
    IN SubSeq([p \in 1..n |-> CHOOSE i \in 1..n : place[i] = p], 1, n)

\* [...arr].sort((x, y) => x - y) on numbers none of which is NaN
SortNumbers(arr) ==
    LET order == StableOrder(arr)
    IN [p \in DOMAIN arr |-> arr[order[p]]]

\* worstNAvg without the sort of line 30
worstNAvgUnsorted(returns, n) ==
    IF Len(returns) < n THEN Undefined
    ELSE Div(SumNums(SubSeq(returns, 1, n)), Int2Num(n))

\* index.js lines 28-33
worstNAvg(returns, n) ==
    IF Len(returns) < n THEN Undefined
    ELSE LET a == SortNumbers(returns)
             worst == SubSeq(a, 1, n)
         IN Div(SumNums(worst), Int2Num(n))

\* quantile taking the lower neighbour, without interpolation
quantileLower(arr, q) ==
    IF Len(arr) = 0 THEN Undefined
    ELSE LET a == SortNumbers(arr)
         IN a[MathFloor(Mul(Int2Num(Len(a) - 1), q)).n + 1]

\* index.js lines 35-44 (positions count from 0 in the code, from 1 here)
quantile(arr, q) ==
    IF Len(arr) = 0 THEN Undefined
    ELSE LET a == SortNumbers(arr)
             pos == Mul(Int2Num(Len(a) - 1), q)
             base == MathFloor(pos)
             rest == Sub(pos, base)
             b == base.n + 1
         IN IF b + 1 > Len(a) THEN a[b]
            ELSE Add(a[b], Mul(rest, Sub(a[b + 1], a[b])))

MathCeil(a) == Neg(MathFloor(Neg(a)))

\* leaps-sim.js lines 236-245 (positions count from 0 in the code, from 1
\* here)
quantileSim(sortedArr, p) ==
    LET n == Len(sortedArr)
        idx == Mul(Int2Num(n - 1), p)
        lo == MathFloor(idx)
        hi == MathCeil(idx)
        w == Sub(idx, lo)
    IN IF n = 0 THEN NaN
       ELSE IF lo = hi THEN sortedArr[lo.n + 1]
       ELSE Add(Mul(sortedArr[lo.n + 1], Sub(One, w)), Mul(sortedArr[hi.n + 1], w))

\* summarize without the sort of line 248
summarizeUnsorted(arr) ==
    LET n == Len(arr)
    IN [mean |-> Div(SumNums(arr), Int2Num(n)),
        pProfit |-> Div(Int2Num(Len(SelectSeq(arr, LAMBDA x : Gt(x, Zero)))),
                        Int2Num(n)),
        p05 |-> quantileSim(arr, Rat(5, 100)),
        p50 |-> quantileSim(arr, Rat(1, 2)),
        p95 |-> quantileSim(arr, Rat(95, 100))]

\* leaps-sim.js lines 247-259
summarize(arr) ==
    LET sorted == SortNumbers(arr)
        n == Len(sorted)
    IN [mean |-> Div(SumNums(sorted), Int2Num(n)),
        pProfit |-> Div(Int2Num(Len(SelectSeq(sorted, LAMBDA x : Gt(x, Zero)))),
                        Int2Num(n)),
        p05 |-> quantileSim(sorted, Rat(5, 100)),
        p50 |-> quantileSim(sorted, Rat(1, 2)),
        p95 |-> quantileSim(sorted, Rat(95, 100))]

\* line 77 with a strict comparison
IsNewHighStrict(e, peak) == Gt(e, peak)

\* line 77
IsNewHigh(e, peak) == Ge(e, peak)

\* line 84 with the quotient inverted
DrawdownOfInverted(e, peak) == Sub(Div(peak, e), One)

\* line 84
DrawdownOf(e, peak) == Sub(Div(e, peak), One)

\* lines 76-86: one turn of the loop, ddDurations keeping the value of
\* ddDuration after each point
DrawdownStep(e, st) ==
    LET high == IsNewHigh(e, st.peak)
        peak == IF high THEN e ELSE st.peak
        ddDuration == IF high THEN 0 ELSE st.ddDuration + 1
        maxDdDuration == IF high THEN st.maxDdDuration
                         ELSE IF st.maxDdDuration < ddDuration
                           THEN ddDuration ELSE st.maxDdDuration
        dd == DrawdownOf(e, peak)
    IN [peak |-> peak, ddDuration |-> ddDuration,
        maxDdDuration |-> maxDdDuration,
        maxDD |-> MathMin(st.maxDD, dd),
        drawdown |-> Append(st.drawdown, dd),
        ddDurations |-> Append(st.ddDurations, ddDuration)]

\* lines 71-87: the forward pass over equity[lo..hi], run as two halves one
\* after the other
RECURSIVE DrawdownPass(_, _, _, _)
DrawdownPass(equity, lo, hi, st) ==
    IF lo > hi THEN st
    ELSE IF lo = hi THEN DrawdownStep(equity[lo], st)
    ELSE LET mid == (lo + hi) \div 2
             first == DrawdownPass(equity, lo, mid, st)
         IN IF Len(first.drawdown) = 0 THEN first
            ELSE DrawdownPass(equity, mid + 1, hi, first)

\* line 93 with a zero return counted as a loss
IsLossOrFlat(r) == Le(r, Zero)

\* line 93
IsLoss(r) == Lt(r, Zero)

\* lines 92-98: one turn of the loop
LoseStep(r, st) ==
    IF IsLoss(r)
      THEN [curLose |-> st.curLose + 1,
            maxLose |-> IF st.maxLose < st.curLose + 1 THEN st.curLose + 1
                        ELSE st.maxLose]
    ELSE [curLose |-> 0, maxLose |-> st.maxLose]

\* lines 90-99 over returns[lo..hi], run as two halves one after the other
RECURSIVE LoseStreak(_, _, _, _)
LoseStreak(returns, lo, hi, st) ==
    IF lo > hi THEN st
    ELSE IF lo = hi THEN LoseStep(returns[lo], st)
    ELSE LET mid == (lo + hi) \div 2
             first == LoseStreak(returns, lo, mid, st)
         IN IF first.maxLose < 0 THEN first
            ELSE LoseStreak(returns, mid + 1, hi, first)

WorstN      == 10
YearReturns == 252

\* floor(B + c*sqrt(w) + 1/2) for rationals B >= 0, c > 0 and 0 < w: the
\* integer m with m - 1/2 - B <= c*sqrt(w) < m + 1/2 - B
RoundWithSqrt(B, c, w) ==
    LET atMost(m) ==
          LET t == Div(Sub(Sub(Int2Num(m), Rat(1, 2)), B), c)
          IN Le(t, Zero) \/ Le(Mul(t, t), w)
        lo == MathRound(B).n
        hi == lo + MathFloor(Mul(c, MathMax(One, w))).n + 1
    IN CHOOSE m \in lo..hi : atMost(m) /\ ~atMost(m + 1)

\* line 130: dailyVol === undefined ? 0 : clamp(dailyVol / 0.03, 0, 1)
JitterOf(dailyVol) ==
    IF dailyVol = Undefined THEN Zero
    ELSE IF dailyVol.k = "sqrt"
      THEN LET w == Div(Rat(dailyVol.n, dailyVol.d), Rat(9, 10000))
           IN IF Ge(w, One) THEN One ELSE SqrtOf(w.n, w.d)
    ELSE clampIndex(Div(dailyVol, Rat(3, 100)), Zero, One)

\* line 133
PainScoreOf(depth, length, jitter) ==
    LET base == Add(Mul(Rat(11, 20), depth), Mul(Rat(3, 10), length))
    IN IF jitter.k = "sqrt"
         THEN IF NumberIsFinite(base)
                THEN Int2Num(RoundWithSqrt(Mul(Int2Num(100), base), Int2Num(15),
                                           Rat(jitter.n, jitter.d)))
              ELSE NaN
       ELSE MathRound(Mul(Int2Num(100), Add(base, Mul(Rat(3, 20), jitter))))

\* round(jitter, 3) of line 139
RoundJitter(jitter) ==
    IF jitter.k = "sqrt"
      THEN Rat(RoundWithSqrt(Zero, Int2Num(1000), Rat(jitter.n, jitter.d)), 1000)
    ELSE round(jitter, 3)

\* line 116 without the limit of 10
WorstCountAll(n) == n

\* line 116: Math.min(10, retSeries.length)
WorstCount(n) == IF n < WorstN THEN n ELSE WorstN

\* line 115 on samples none of which has a NaN return: a stable sort,
\* ascending by r
SortSamples(samples) ==
    LET order == StableOrder([i \in DOMAIN samples |-> samples[i].r])
    IN [p \in DOMAIN samples |-> samples[order[p]]]

\* all orders of a sequence
OrdersOf(seq) ==
    LET n == Len(seq)
        bij == {f \in [1..n -> 1..n] : \A i, j \in 1..n : f[i] = f[j] => i = j}
    IN {[i \in 1..n |-> seq[f[i]]] : f \in bij}

\* line 115: with a NaN return the comparator a.r - b.r is not consistent and
\* the order the sort leaves is up to the engine
SortOutcomes(samples) ==
    IF \E i \in DOMAIN samples : samples[i].r.k = "nan"
      THEN OrdersOf(samples)
    ELSE {SortSamples(samples)}

\* lines 114-121
WorstDaysOf(sorted) ==
    [i \in 1..WorstCount(Len(sorted)) |->
       [rank |-> i, date |-> sorted[i].date,
        retPct |-> round(Mul(sorted[i].r, Int2Num(100)), 2)]]

\* lines 56-62: the dated returns
RetSeriesOf(points) ==
    LET returns == ReturnsOf([i \in DOMAIN points |-> points[i].close])
    IN [i \in DOMAIN returns |-> [date |-> points[i + 1].date, r |-> returns[i]]]

MinPoints == 2

\* line 51 with the bound off by one
NotEnoughPointsStrict(in) == ~in.given \/ Len(in.points) <= MinPoints

\* line 51
NotEnoughPoints(in) == ~in.given \/ Len(in.points) < MinPoints

\* lines 50-154; sorted is retSeries as the sort of line 115 leaves it
analyze(in, sorted) ==
    IF NotEnoughPoints(in) THEN [kind |-> "error", message |-> "Not enough points"]
    ELSE LET closes  == [i \in DOMAIN in.points |-> in.points[i].close]
             returns == ReturnsOf(closes)
             retSeries == RetSeriesOf(in.points)
             equity  == EquityOf(returns)
             pass    == DrawdownPass(equity, 1, Len(equity),
                           [peak |-> equity[1], ddDuration |-> 0, maxDdDuration |-> 0,
                            maxDD |-> Zero, drawdown |-> <<>>,
                            ddDurations |-> <<>>])
             dailyVol == stddev(returns)
             depth   == clampIndex(Div(MathAbs(pass.maxDD), Rat(3, 5)), Zero, One)
             length  == clampIndex(Div(Int2Num(pass.maxDdDuration),
                                       Int2Num(YearReturns)), Zero, One)
             jitter  == JitterOf(dailyVol)
         IN [kind |-> "summary",
             returns |-> returns,
             retSeries |-> retSeries,
             equity |-> equity,
             drawdown |-> pass.drawdown,
             ddDurations |-> pass.ddDurations,
             maxDD |-> pass.maxDD,
             maxDdDuration |-> pass.maxDdDuration,
             maxLose |-> LoseStreak(returns, 1, Len(returns),
                                   [curLose |-> 0, maxLose |-> 0]).maxLose,
             dailyVol |-> dailyVol,
             worst10Avg |-> worstNAvg(returns, WorstN),
             worstYear |-> IF Len(returns) >= YearReturns
                             THEN quantile(returns, Rat(1, YearReturns))
                           ELSE Undefined,
             worstDays |-> WorstDaysOf(sorted),
             painScore |-> PainScoreOf(depth, length, jitter),
             painBreakdown |-> [depth |-> round(depth, 3),
                                length |-> round(length, 3),
                                jitter |-> RoundJitter(jitter)]]

-----------------------------------------------------------------------------
(***************************************************************************)
(* The operations.  They share no state: each behaviour follows one        *)
(* operation from the idle state.                                           *)
(***************************************************************************)
NoInput == [given |-> FALSE, points |-> <<>>]
NoSummary == [kind |-> "none"]
NoQuantile == [kind |-> "none"]
NoSummaries == [kind |-> "none"]

Idle == pc = "start" /\ sc = NoScenario /\ anOut = NoSummary /\ qt = NoQuantile
          /\ sm = NoSummaries

\* the scenario memo of src/pages/api/leaps-scenario.js
EvalScenarioPage ==
    /\ Idle
    /\ \E in \in ScenarioInputs("leaps-scenario-page") :
          sc' = in /\ scOut' = ScenarioPageEval(in)
    /\ UNCHANGED <<simVars, anVars, qtVars, smVars>>
    /\ UNCHANGED uiVars

\* the theo memo of the LeapsScenario page (src/unnamed/part_003)
EvalLeapsScenario ==
    /\ Idle
    /\ \E in \in ScenarioInputs("leaps-scenario") :
          sc' = in /\ scOut' = LeapsScenarioEval(in)
    /\ UNCHANGED <<simVars, anVars, qtVars, smVars>>
    /\ UNCHANGED uiVars

\* the computed memo of the LeapsPage page (src/unnamed/part_004)
EvalLeapsPage ==
    /\ Idle
    /\ \E in \in ScenarioInputs("leaps") :
          sc' = in /\ scOut' = LeapsPageEval(in)
    /\ UNCHANGED <<simVars, anVars, qtVars, smVars>>
    /\ UNCHANGED uiVars

Analyze ==
    /\ Idle
    /\ \E in \in AnalyzeInputs :
          \E sorted \in (IF NotEnoughPoints(in) THEN {<<>>}
                         ELSE SortOutcomes(RetSeriesOf(in.points))) :
             an' = in /\ anOut' = analyze(in, sorted)
    /\ UNCHANGED <<simVars, scVars, qtVars, smVars>>
    /\ UNCHANGED uiVars

\* the arrays and probabilities the quantile functions are applied to
MaxQLen        == 4
QuantileValues == {Rat(-3, 4), Zero, One, Int2Num(4)}
QuantileProbs  == {Zero, Rat(1, 252), Rat(1, 20), Rat(1, 4), Rat(1, 2),
                   Rat(3, 4), Rat(19, 20), One}

\* quantile of index.js at two probabilities, and quantile of leaps-sim.js
\* on the array as summarize sorts it (line 248)
Quantiles ==
    /\ Idle
    /\ \E arr \in SeqsUpTo(QuantileValues, MaxQLen) : \E q \in QuantileProbs :
         \E p \in QuantileProbs :
            qt' = [kind |-> "done", arr |-> arr, q |-> q, p |-> p,
                   atQ |-> quantile(arr, q), atP |-> quantile(arr, p),
                   simQ |-> quantileSim(SortNumbers(arr), q)]
    /\ UNCHANGED <<simVars, scVars, anVars, smVars>>
    /\ UNCHANGED uiVars

\* the arrays summarize is applied to
MaxSumLen     == 3
SummaryValues == {Int2Num(-500), Zero, Int2Num(250), Int2Num(1000)}

\* summarize of leaps-sim.js on the values of one checkpoint, and on the same
\* values in another order
Summaries ==
    /\ Idle
    /\ \E arr \in SeqsUpTo(SummaryValues, MaxSumLen) \ {<<>>} :
         \E other \in OrdersOf(arr) :
            sm' = [kind |-> "done", arr |-> arr, other |-> other,
                   ofArr |-> summarize(arr), ofOther |-> summarize(other)]
    /\ UNCHANGED <<simVars, scVars, anVars, qtVars>>
    /\ UNCHANGED uiVars

\* the arguments the pricers are applied to, as pure functions
PricerArgs(pricer) ==
    [page : {pricer},
     Sx : {Int2Num(50), Int2Num(150), Zero},
     K : {Int2Num(100), Zero},
     T : {Rat(-1, 365), Zero, Rat(1, 2)},
     r : {Rat(1, 20)},
     q : {Zero, Rat(1, 50)},
     sigma : {Rat(-1, 5), Zero, Rat(1, 5), NaN},
     type : {"call", "put"}]

PricedOut(a, price) == CalledOut("priced", a.Sx, a.K, a.T, a.sigma, price, JsNull)

\* bsPrice of leaps-sim.js applied to given arguments
PriceSim ==
    /\ Idle
    /\ \E a \in PricerArgs("bsPrice:leaps-sim") :
          /\ sc' = a
          /\ scOut' = PricedOut(a, bsPrice(a.Sx, a.K, a.T, a.r, a.q, a.sigma, a.type))
    /\ UNCHANGED <<simVars, anVars, qtVars, smVars>>
    /\ UNCHANGED uiVars

\* bsPrice of src/pages/api/leaps-scenario.js applied to given arguments
PriceScenarioPage ==
    /\ Idle
    /\ \E a \in PricerArgs("bsPrice:leaps-scenario-page") :
          /\ sc' = a
          /\ scOut' = PricedOut(a, bsPriceScenarioPage(a.Sx, a.K, a.T, a.r, a.q,
                                                       a.sigma, a.type))
    /\ UNCHANGED <<simVars, anVars, qtVars, smVars>>
    /\ UNCHANGED uiVars

\* bsPrice of leaps.js (src/unnamed/part_004) applied to given arguments
PriceLeaps ==
    /\ Idle
    /\ \E a \in PricerArgs("bsPrice:leaps") :
          /\ sc' = a
          /\ scOut' = PricedOut(a, bsPriceLeaps(a.Sx, a.K, a.T, a.r, a.q, a.sigma,
                                                a.type = "call"))
    /\ UNCHANGED <<simVars, anVars, qtVars, smVars>>
    /\ UNCHANGED uiVars

\* bsPrice of the LeapsScenario page (src/unnamed/part_003) applied to given
\* arguments
PriceLeapsScenario ==
    /\ Idle
    /\ \E a \in PricerArgs("bsPrice:leaps-scenario") :
          /\ sc' = a
          /\ scOut' = PricedOut(a, bsPriceLeapsScenario(a.Sx, a.K, a.r, a.q, a.sigma,
                                                        a.T, a.type = "call"))
    /\ UNCHANGED <<simVars, anVars, qtVars, smVars>>
    /\ UNCHANGED uiVars

(***************************************************************************)
(* The LEAPS scenario page: fetchChain and the expiry debounce             *)
(* (src/unnamed/part_003)                                                  *)
(***************************************************************************)
MaxReqs == 3

\* an epoch value: the instant v given in seconds or in milliseconds, or a
\* value that is no positive finite number
NoEpoch == [unit |-> "none", v |-> 0]
Secs(v) == [unit |-> "s", v |-> v]
Millis(v) == [unit |-> "ms", v |-> v]

\* lines 5-9: seconds (n < 1e12) are turned into milliseconds
toMs(epochLike) ==
    IF epochLike.unit = "none" THEN NoEpoch ELSE Millis(epochLike.v)

Expiries == {1, 2}

NoData == [kind |-> "null", expiry |-> NoEpoch, expirations |-> <<>>]
NoTimer == [set |-> FALSE, ex |-> NoEpoch, tkr |-> ""]

\* lines 83-107: the state after the first render
InitPage ==
    [ticker |-> "AAPL", loading |-> FALSE, err |-> "", data |-> NoData,
     expiryMs |-> NoEpoch, contractSymbol |-> "", lastReqId |-> 0,
     timer |-> NoTimer, inflight |-> {}]

TickerInputs == {"", "AAPL", " msft"}

\* line 118: String(tkr || "").trim().toUpperCase()
TickerOf(tkr) == IF tkr = " msft" THEN "MSFT" ELSE tkr

\* what /api/options-chain may answer: the fetch or res.json() throws, a
\* body with ok false, or a body with ok true, an expiry and expirations
ChainReplies ==
    {[kind |-> k, expiry |-> NoEpoch, expirations |-> <<>>] :
        k \in {"reject", "notok"}}
    \cup {[kind |-> "ok", expiry |-> e, expirations |-> xs] :
            e \in {NoEpoch} \cup {Secs(v) : v \in Expiries},
            xs \in {<<>>, <<Secs(1), Secs(2)>>}}

\* lines 144-148: the catch block
ChainFailed(p, msg) ==
    [p EXCEPT !.data = NoData, !.expiryMs = NoEpoch, !.contractSymbol = "",
              !.err = msg]

\* lines 159-177: the effect of [expiryMs], run after a render in which
\* expiryMs changed: the cleanup of its last run clears the timer, and a new
\* timer is set unless there is no data, no expiry, or the data is of that
\* expiry
ExpiryEffect(old, new) ==
    IF new.expiryMs = old.expiryMs THEN new
    ELSE LET ex == toMs(new.expiryMs)
         IN IF new.data.kind = "null" \/ ex = NoEpoch \/ toMs(new.data.expiry) = ex
              THEN [new EXCEPT !.timer = NoTimer]
              ELSE [new EXCEPT !.timer = [set |-> TRUE, ex |-> ex, tkr |-> new.ticker]]

\* lines 110-122 and 144-151: fetchChain up to its first await
StartFetch(p, tkr, expiry) ==
    LET reqId == p.lastReqId + 1
        t == TickerOf(tkr)
        p1 == [p EXCEPT !.lastReqId = reqId, !.err = "", !.loading = TRUE]
    IN IF t = ""
         THEN [ChainFailed(p1, "Ticker is required") EXCEPT !.loading = FALSE]
         ELSE [p1 EXCEPT !.inflight = @ \cup {[id |-> reqId, tkr |-> t, expiry |-> expiry]}]

\* line 128: j.expirations.map(toMs).filter(Boolean)
ExpirationsOf(xs) == SelectSeq([i \in DOMAIN xs |-> toMs(xs[i])], LAMBDA e : e # NoEpoch)

\* lines 123-151: fetchChain from the answer on
FinishFetch(p, req, reply) ==
    LET isLast == req.id = p.lastReqId
        left == [p EXCEPT !.inflight = @ \ {req}]
        done(q) == IF isLast THEN [q EXCEPT !.loading = FALSE] ELSE q
    IN IF reply.kind = "reject" THEN done(ChainFailed(left, "fetch failed"))
       ELSE IF ~isLast THEN left
       ELSE IF reply.kind = "notok" THEN done(ChainFailed(left, "options-chain failed"))
       ELSE LET expirations == ExpirationsOf(reply.expirations)
                picked == toMs(reply.expiry)
            IN done([left EXCEPT
                       !.data = [kind |-> "chain", expiry |-> picked,
                                 expirations |-> expirations],
                       !.expiryMs = IF picked # NoEpoch THEN picked
                                    ELSE IF Len(expirations) > 0 THEN expirations[1]
                                    ELSE NoEpoch,
                       !.contractSymbol = ""])

PageFrame == UNCHANGED <<coreVars, api, home>>

\* line 278: the ticker input
PageSetTicker ==
    /\ \E t \in TickerInputs \ {page.ticker} : page' = [page EXCEPT !.ticker = t]
    /\ PageFrame

\* lines 154-157 and 279: the Load button, enabled while not loading
LoadChain ==
    /\ ~page.loading
    /\ page.lastReqId < MaxReqs
    /\ page' = ExpiryEffect(page, StartFetch(page, page.ticker, NoEpoch))
    /\ PageFrame

\* lines 286-299: the expiry select, enabled with data and while not loading
SelectExpiry ==
    /\ page.data.kind = "chain" /\ ~page.loading
    /\ \E i \in DOMAIN page.data.expirations :
          /\ page.data.expirations[i] # page.expiryMs
          /\ page' = ExpiryEffect(page, [page EXCEPT !.expiryMs =
                                            toMs(page.data.expirations[i])])
    /\ PageFrame

\* lines 345-350: the contract select
SelectContract ==
    /\ page.data.kind = "chain" /\ ~page.loading
    /\ \E c \in {"", "C1"} \ {page.contractSymbol} :
          page' = [page EXCEPT !.contractSymbol = c]
    /\ PageFrame

\* lines 169-171: the debounce timer fires, 350 ms after it was set
TimerFires ==
    /\ page.timer.set
    /\ page.lastReqId < MaxReqs
    /\ page' = ExpiryEffect(page, StartFetch([page EXCEPT !.timer = NoTimer],
                                             page.timer.tkr, page.timer.ex))
    /\ PageFrame

\* lines 122-151: the answer to a request in flight arrives
ChainReply ==
    /\ \E req \in page.inflight, reply \in ChainReplies :
          page' = ExpiryEffect(page, FinishFetch(page, req, reply))
    /\ PageFrame

ChainNext ==
    \/ PageSetTicker
    \/ LoadChain
    \/ SelectExpiry
    \/ SelectContract
    \/ TimerFires
    \/ ChainReply

(***************************************************************************)
(* The prices API handler: cache and failure cooldown                      *)
(* (src/unnamed/part_002)                                                  *)
(***************************************************************************)
MaxApiReqs == 3
MaxTicks == 3

CACHE_TTL_MS == 10 * 60 * 1000
FAIL_COOLDOWN_MS == 30 * 1000

\* Date.now() when the server starts, and the amounts of time that pass
\* between two steps
StartClock == 1000
TickSteps == {15000, 585000}

SymbolInputs == {"", "gld "}
PeriodInputs == {"", "1y"}

\* lines 23-25
normalizeSymbol(raw) == IF raw = "gld " THEN "GLD" ELSE raw

\* lines 27-29
normalizePeriod(raw) == IF raw = "" THEN "5Y" ELSE IF raw = "1y" THEN "1Y" ELSE raw

\* lines 19-21
cacheKey(symbol, period) == <<symbol, period>>

ApiKeys ==
    {cacheKey(normalizeSymbol(sy), normalizePeriod(pe)) :
        sy \in SymbolInputs \ {""}, pe \in PeriodInputs}

\* a row of the provider's arrays: a timestamp (as its UTC day, 0 if it is
\* not a finite number) and a close (0 if it is not a finite number)
Row(day, close) == [day |-> day, close |-> close]

\* what the provider may do: the fetch or r.text() throws, the body is not
\* JSON, chart.error is set, chart.result[0] or its arrays are missing, or
\* rows are delivered
ProviderReplies ==
    {[kind |-> k, rows |-> <<>>] :
        k \in {"throw", "nonjson", "error", "missing"}}
    \cup {[kind |-> "rows", rows |-> rows] :
            rows \in {<<Row(1, 10)>>,
                      <<Row(2, 11), Row(1, 10)>>,
                      <<Row(1, 10), Row(0, 12), Row(3, 0), Row(2, 11)>>}}

\* lines 123-132: the points of the rows with a finite timestamp and close
PointsOfRows(rows) ==
    SelectSeq([i \in DOMAIN rows |-> [date |-> rows[i].day, close |-> rows[i].close]],
              LAMBDA pt : pt.date # 0 /\ pt.close # 0)

\* line 145: points.sort by date, ascending and stable
RECURSIVE SortByDate(_)
SortByDate(points) ==
    IF Len(points) <= 1 THEN points
    ELSE LET rest == SortByDate(SubSeq(points, 1, Len(points) - 1))
             last == points[Len(points)]
             before == SelectSeq(rest, LAMBDA pt : pt.date <= last.date)
             after == SelectSeq(rest, LAMBDA pt : pt.date > last.date)
         IN before \o <<last>> \o after

NoEntry == [ts |-> 0, points |-> <<>>]
NoAnswer == [op |-> "none", symbol |-> "", key |-> <<"", "">>, at |-> 0,
             status |-> 0, points |-> <<>>, contacted |-> FALSE]

\* lines 12-13: both maps are empty; failedAt records when the provider last
\* failed for a key, and last what the latest step of the handler did
InitApi ==
    [clock |-> StartClock,
     ticks |-> 0,
     cache |-> [k \in ApiKeys |-> NoEntry],
     fail |-> [k \in ApiKeys |-> 0],
     inflight |-> {},
     nextId |-> 1,
     failedAt |-> [k \in ApiKeys |-> 0],
     last |-> NoAnswer]

\* lines 48-49
InCooldown(a, key) ==
    a.fail[key] # 0 /\ a.clock - a.fail[key] < FAIL_COOLDOWN_MS

\* lines 57-58
CacheHit(a, key) ==
    a.cache[key] # NoEntry /\ a.clock - a.cache[key].ts < CACHE_TTL_MS

\* lines 40-79: the handler from the request to its first await
Arrive(a, rawSymbol, rawPeriod) ==
    LET symbol == normalizeSymbol(rawSymbol)
        period == normalizePeriod(rawPeriod)
        key == cacheKey(symbol, period)
        answer(status, points, contacted) ==
            [op |-> "arrive", symbol |-> symbol, key |-> key, at |-> a.clock,
             status |-> status, points |-> points, contacted |-> contacted]
        a1 == [a EXCEPT !.nextId = @ + 1]
    IN IF symbol = "" THEN [a1 EXCEPT !.last = answer(400, <<>>, FALSE)]
       ELSE IF InCooldown(a, key) THEN [a1 EXCEPT !.last = answer(429, <<>>, FALSE)]
       ELSE IF CacheHit(a, key)
         THEN [a1 EXCEPT !.last = answer(200, a.cache[key].points, FALSE)]
       ELSE [a1 EXCEPT !.last = answer(0, <<>>, TRUE),
                       !.inflight = @ \cup {[id |-> a.nextId, key |-> key]}]

\* lines 81-159: the handler from the provider's answer on
Settle(a, req, reply) ==
    LET key == req.key
        answer(status, points) ==
            [op |-> "settle", symbol |-> key[1], key |-> key, at |-> a.clock,
             status |-> status, points |-> points, contacted |-> TRUE]
        left == [a EXCEPT !.inflight = @ \ {req}]
        failed(status) ==
            [left EXCEPT !.fail[key] = a.clock, !.failedAt[key] = a.clock,
                         !.last = answer(status, <<>>)]
        points == PointsOfRows(reply.rows)
    IN CASE reply.kind = "throw" ->
              [left EXCEPT !.failedAt[key] = a.clock, !.last = answer(500, <<>>)]
         [] reply.kind = "nonjson" -> failed(502)
         [] reply.kind = "error" -> failed(400)
         [] reply.kind = "missing" -> failed(502)
         [] OTHER ->
              IF Len(points) < 2 THEN failed(400)
              ELSE [left EXCEPT
                      !.cache[key] = [ts |-> a.clock, points |-> SortByDate(points)],
                      !.last = answer(200, SortByDate(points))]

ApiFrame == UNCHANGED <<coreVars, page, home>>

\* time passes
Tick ==
    /\ \E d \in TickSteps :
          /\ api.ticks < MaxTicks
          /\ api' = [api EXCEPT !.clock = @ + d, !.ticks = @ + 1]
    /\ ApiFrame

\* lines 38-79: a request arrives
PricesArrive ==
    /\ api.nextId <= MaxApiReqs
    /\ \E rawSymbol \in SymbolInputs, rawPeriod \in PeriodInputs :
          api' = Arrive(api, rawSymbol, rawPeriod)
    /\ ApiFrame

\* lines 81-159: the provider answers a request in flight
PricesSettle ==
    /\ \E req \in api.inflight, reply \in ProviderReplies :
          api' = Settle(api, req, reply)
    /\ ApiFrame

PricesNext ==
    \/ Tick
    \/ PricesArrive
    \/ PricesSettle

(***************************************************************************)
(* The Return Risk Analyzer page: onAnalyze (src/pages/index.js)           *)
(***************************************************************************)
MaxAnalyses == 3

HomeTickerInputs == {"GLD", "spy "}
HomePeriodInputs == {"5Y", "1Y"}

\* lines 239-240: toUpperCase().trim()
UpperTrim(text) == IF text = "spy " THEN "SPY" ELSE text

\* the points /api/prices answers for a symbol and a period; no points
NoSeries == [symbol |-> "", period |-> ""]
SeriesFor(symbol, period) == [symbol |-> symbol, period |-> period]

\* lines 221-227: the state of the first render; started counts the calls of
\* onAnalyze, latest is what the latest call asked for, and allOk tells that
\* no request has failed
InitHome ==
    [ticker |-> "GLD", period |-> "5Y", points |-> NoSeries, err |-> "",
     loading |-> FALSE, autoRan |-> FALSE, inflight |-> {}, started |-> 0,
     latest |-> NoSeries, allOk |-> TRUE]

\* lines 238-248: onAnalyze up to its await
onAnalyze(h, nextTicker, nextPeriod) ==
    LET t == UpperTrim(nextTicker)
        p == UpperTrim(nextPeriod)
    IN [h EXCEPT !.err = "", !.loading = TRUE,
                 !.started = @ + 1,
                 !.latest = SeriesFor(t, p),
                 !.inflight = @ \cup {[id |-> h.started + 1, t |-> t, p |-> p]}]

\* lines 249-257: onAnalyze from the answer on
onAnswer(h, req, outcome) ==
    LET left == [h EXCEPT !.inflight = @ \ {req}, !.loading = FALSE]
    IN IF outcome = "ok"
         THEN [left EXCEPT !.points = SeriesFor(req.t, req.p)]
         ELSE [left EXCEPT !.err = "Error: API error", !.allOk = FALSE]

HomeFrame == UNCHANGED <<coreVars, page, api>>

\* lines 260-274: the effect after the first render analyses what the URL
\* names, GLD and 5Y where it names nothing
AutoRun ==
    /\ ~home.autoRan
    /\ \E nextT \in {"GLD", "SPY"}, nextP \in {"5Y", "1Y"} :
          home' = onAnalyze([home EXCEPT !.ticker = nextT, !.period = nextP,
                                         !.autoRan = TRUE], nextT, nextP)
    /\ HomeFrame

\* line 312: the ticker input
HomeSetTicker ==
    /\ home.autoRan
    /\ \E t \in HomeTickerInputs \ {home.ticker} : home' = [home EXCEPT !.ticker = t]
    /\ HomeFrame

\* lines 325-327: the period select
HomeSetPeriod ==
    /\ home.autoRan
    /\ \E p \in HomePeriodInputs \ {home.period} : home' = [home EXCEPT !.period = p]
    /\ HomeFrame

\* lines 336-338: the Analyze button, enabled while not loading
AnalyzeClick ==
    /\ home.autoRan /\ ~home.loading
    /\ home.started < MaxAnalyses
    /\ home' = onAnalyze(home, home.ticker, home.period)
    /\ HomeFrame

\* lines 320-322: Enter in the ticker input, whether loading or not
AnalyzeEnter ==
    /\ home.autoRan
    /\ home.started < MaxAnalyses
    /\ home' = onAnalyze(home, home.ticker, home.period)
    /\ HomeFrame

\* lines 246-257: the answer to a request in flight arrives
HomeAnswer ==
    /\ \E req \in home.inflight, outcome \in {"ok", "error"} :
          home' = onAnswer(home, req, outcome)
    /\ HomeFrame

HomeNext ==
    \/ AutoRun
    \/ HomeSetTicker
    \/ HomeSetPeriod
    \/ AnalyzeClick
    \/ AnalyzeEnter
    \/ HomeAnswer

-----------------------------------------------------------------------------
Init ==
    /\ InitSimVars
    /\ sc = NoScenario
    /\ scOut = NoOut
    /\ an = NoInput
    /\ anOut = NoSummary
    /\ qt = NoQuantile
    /\ sm = NoSummaries
    /\ page = InitPage
    /\ api = InitApi
    /\ home = InitHome

Next ==
    \/ Normalize
    \/ ValidateNumeric
    \/ ParseDates
    \/ ReadCheckpointDays
    \/ ReadCheckpointDates
    \/ FinishCheckpoints
    \/ DrawU
    \/ DrawV
    \/ PathStep
    \/ RemainingPaths
    \/ Respond
    \/ PriceSim
    \/ PriceScenarioPage
    \/ PriceLeaps
    \/ PriceLeapsScenario
    \/ EvalScenarioPage
    \/ EvalLeapsScenario
    \/ EvalLeapsPage
    \/ Analyze
    \/ Quantiles
    \/ Summaries

Spec == Init /\ [][Next]_vars

ChainSpec == Init /\ [][ChainNext]_vars

PricesSpec == Init /\ [][PricesNext]_vars

HomeSpec == Init /\ [][HomeNext]_vars

\* the steps of the handler once it has the request
HandlerStep ==
    \/ ValidateNumeric
    \/ ParseDates
    \/ ReadCheckpointDays
    \/ ReadCheckpointDates
    \/ FinishCheckpoints
    \/ DrawU
    \/ DrawV
    \/ PathStep
    \/ RemainingPaths
    \/ Respond

\* a request comes in, or the handler takes a step
RunNext == Normalize \/ HandlerStep

\* ENABLED <<PathStep>>_vars: the guard of PathStep (StepFactors has members,
\* and the step changes draw)
PathStepEnabled ==
    /\ pc = "loop"
    /\ Lt(path, loc.sims)
    /\ Lt(path, Int2Num(MaxPaths))
    /\ ci <= Len(cpDays)
    /\ draw = "z"

\* WF_vars(PathStep), with its ENABLED written out
PathStepFair == []<>(~PathStepEnabled) \/ []<><<PathStep>>_vars

\* the loop of the handler goes on running once it is entered, and each loop
\* of randn gets a value that is not 0 in the end
LiveSpec ==
    /\ Init /\ [][RunNext]_vars
    /\ WF_vars(DrawU) /\ WF_vars(DrawV)
    /\ PathStepFair
    /\ WF_vars(RemainingPaths) /\ WF_vars(Respond)

-----------------------------------------------------------------------------
(***************************************************************************)
(* Properties of simulate                                                  *)
(***************************************************************************)
\* the final checkpoint list exists once the loop is entered
CheckpointsFinal == pc = "loop" \/ (pc = "done" /\ res.status = 200)

\* the whole days between currentDate and expiryDate
totalHorizonDays == MathFloor(dates.totalDays)

\* C1: for every accepted request, whatever checkpointDays and
\* checkpointDates hold, the final list of checkpoint day offsets is strictly
\* increasing, each element is an integer in [1, totalHorizonDays], and the
\* last element is totalHorizonDays.
C1_CheckpointsSortedEndAtHorizon ==
    CheckpointsFinal =>
       /\ Len(cpDays) >= 1
       /\ \A i \in DOMAIN cpDays :
             /\ IsInteger(cpDays[i])
             /\ Ge(cpDays[i], One)
             /\ Le(cpDays[i], totalHorizonDays)
       /\ \A i \in 1..(Len(cpDays) - 1) : Lt(cpDays[i], cpDays[i + 1])
       /\ cpDays[Len(cpDays)] = totalHorizonDays

\* an answered request whose checkpoints came from a fractional offset, an
\* offset, a date and the forced expiry
C1_Witness ==
    /\ pc = "done" /\ res.status = 200
    /\ Len(cpDays) = 4
    /\ cpDays[1] = Int2Num(2)
    /\ cpDays[3] = Int2Num(40)
    /\ cpDays[4] = Int2Num(400)

\* the request has a numeric field, a date or a horizon that validation is
\* to refuse
RequestInvalid ==
    \/ \E x \in {loc.S0, loc.K, loc.sigma, loc.r, loc.q} : ~NumberIsFinite(x)
    \/ Le(loc.S0, Zero)
    \/ Le(loc.K, Zero)
    \/ Lt(loc.sigma, Zero)
    \/ Gt(loc.sigma, Int2Num(5))
    \/ /\ dates.read
       /\ \/ ~dates.cur.ok
          \/ ~dates.exp.ok
          \/ Le(dates.totalDays, Rat(1, 2))

\* C2: a request with a non-finite S0, K, sigma, r or q, with S0 <= 0,
\* K <= 0, sigma < 0 or sigma > 5, with a currentDate or expiryDate that is
\* no calendar date, or with a horizon of at most half a day ends in HTTP 400
\* carrying only ok and error, and no path was simulated for it.
C2_InvalidRequestRejected ==
    (pc = "done" /\ RequestInvalid) =>
       /\ res.status = 400
       /\ res.keys = {"ok", "error"}
       /\ nVals = 0
       /\ lastCall = NoCall

\* the path count that clamping nSims into [500, 200000] gives
ClampedCount(n) ==
    IF Lt(n, Int2Num(500)) THEN Int2Num(500)
    ELSE IF Gt(n, Int2Num(200000)) THEN Int2Num(200000)
    ELSE n

\* the request was read and its fields were normalized
Normalized == pc # "start" /\ res.status # 500

IntegerNSims == rawNSims.t = "number" /\ IsInteger(rawNSims.num)

NonNumericNSims == rawNSims.t = "string" /\ ~NumberIsFinite(Number(rawNSims))

C5_RunsUseValidOptionSpec ==
    CheckpointsFinal =>
       /\ Gt(loc.S0, Zero)
       /\ Gt(loc.K, Zero)
       /\ Ge(loc.sigma, Zero)
       /\ loc.optType \in {"call", "put"}
       /\ Ge(loc.paid, Zero)
       /\ IsInteger(loc.qty) /\ Ge(loc.qty, One)

-----------------------------------------------------------------------------
(***************************************************************************)
(* Properties of the pricers and of their callers                          *)
(***************************************************************************)
Priced == scOut.kind = "priced"

\* max(S - K, 0) for a call, max(K - S, 0) for a put
IntrinsicValue(Sx, K, type) ==
    LET diff == IF type = "call" THEN Sub(Sx, K) ELSE Sub(K, Sx)
    IN IF Gt(diff, Zero) THEN diff ELSE Zero

GivesIntrinsic ==
    /\ scOut.branch = "intrinsic"
    /\ scOut.theo = IntrinsicValue(sc.Sx, sc.K, sc.type)

EvaluatorPages == {"leaps-scenario-page", "leaps-scenario", "leaps"}

\* a scenario evaluator called its pricer
EvaluatorCalled == sc.page \in EvaluatorPages /\ scOut.called

\* C7: the closed-formula branch (d1 with ln(S/K), divided by
\* sigma*sqrt(T)) is reached only with S > 0, K > 0, T > 0 and sigma > 0, from
\* simulate and from every scenario evaluator.
C7_FormulaBranchArgsPositive ==
    /\ lastCall.branch = "formula" =>
          /\ Gt(lastCall.Sx, Zero) /\ Gt(lastCall.K, Zero)
          /\ Gt(lastCall.T, Zero) /\ Gt(lastCall.sigma, Zero)
    /\ (EvaluatorCalled /\ scOut.branch = "formula") =>
          /\ Gt(scOut.Sx, Zero) /\ Gt(scOut.K, Zero)
          /\ Gt(scOut.T, Zero) /\ Gt(scOut.sigma, Zero)

-----------------------------------------------------------------------------
(***************************************************************************)
(* Properties of analyze                                                   *)
(***************************************************************************)
Analyzed == anOut.kind # "none"

\* C9: analyze fails with the insufficient-data error, and returns no
\* summary, exactly when the series is missing or has fewer than 2 points;
\* for every series of at least 2 points it returns a summary.
C9_ErrorIffFewerThanTwoPoints ==
    Analyzed =>
       /\ anOut.kind \in {"error", "summary"}
       /\ anOut.kind = "error" <=> (~an.given \/ Len(an.points) < 2)
       /\ anOut.kind = "error" => anOut.message = "Not enough points"
       /\ (an.given /\ Len(an.points) >= 2) => anOut.kind = "summary"

\* a series of one point is refused
C9_Witness ==
    /\ anOut.kind = "error"
    /\ an.given /\ Len(an.points) = 1

PositiveSeries == \A i \in DOMAIN an.points : Gt(an.points[i].close, Zero)

\* C10: for every positive series of n >= 2 points the returns have length
\* n - 1, the equity and the drawdown have length n, the equity starts at 1,
\* each equity is the one before times 1 + the return of its day, and so it
\* is the close divided by the first close.
C10_ReturnsEquityShape ==
    (anOut.kind = "summary" /\ PositiveSeries) =>
       LET n == Len(an.points)
       IN /\ n >= 2
          /\ Len(anOut.returns) = n - 1
          /\ Len(anOut.retSeries) = n - 1
          /\ Len(anOut.equity) = n
          /\ Len(anOut.drawdown) = n
          /\ anOut.equity[1] = One
          /\ \A i \in 2..n :
                /\ anOut.retSeries[i - 1].date = an.points[i].date
                /\ anOut.equity[i] =
                     Mul(anOut.equity[i - 1], Add(One, anOut.retSeries[i - 1].r))
                /\ anOut.equity[i] = Div(an.points[i].close, an.points[1].close)

\* the series 100, 90, 108: the equity ends at 1.08
C10_Witness ==
    /\ anOut.kind = "summary"
    /\ Len(an.points) = 3
    /\ an.points[1].close = Int2Num(100) /\ an.points[2].close = Int2Num(90)
    /\ anOut.returns[1] = Rat(-1, 10)
    /\ anOut.equity[3] = Rat(27, 25)
    /\ Len(anOut.drawdown) = 3

\* the largest of the first i equities
RunningMax(equity, i) ==
    CHOOSE m \in {equity[j] : j \in 1..i} : \A j \in 1..i : Le(equity[j], m)

PositiveSummary == anOut.kind = "summary" /\ PositiveSeries

\* C11: for every positive series of at least 2 points every drawdown is
\* <= 0 and is the equity divided by the running maximum of the equity so
\* far, minus 1; maxDD is the minimum of the drawdowns and is <= 0.
C11_DrawdownNonPositive ==
    PositiveSummary =>
       /\ \A i \in DOMAIN anOut.drawdown :
             /\ Le(anOut.drawdown[i], Zero)
             /\ anOut.drawdown[i] =
                  Sub(Div(anOut.equity[i], RunningMax(anOut.equity, i)), One)
             /\ Le(anOut.maxDD, anOut.drawdown[i])
       /\ \E i \in DOMAIN anOut.drawdown : anOut.maxDD = anOut.drawdown[i]
       /\ Le(anOut.maxDD, Zero)

\* the series 100, 108, 90: the last point is 1/6 below the peak
C11_Witness ==
    /\ PositiveSummary
    /\ Len(an.points) = 3
    /\ anOut.drawdown = <<Zero, Zero, Rat(-1, 6)>>
    /\ anOut.maxDD = Rat(-1, 6)

\* point i is a new equity high: no earlier equity is above it
NewHighAt(i) == \A j \in 1..(i - 1) : Le(anOut.equity[j], anOut.equity[i])

\* C12: in the forward pass the drawdown duration is 0 at a new equity high
\* and one more than at the point before otherwise; maxDdDuration is the
\* largest duration of the series, so it is >= 0, and it is 0 exactly when no
\* point is below the running peak.
C12_DrawdownDuration ==
    PositiveSummary =>
       LET d == anOut.ddDurations
       IN /\ Len(d) = Len(an.points)
          /\ \A i \in DOMAIN d :
                /\ d[i] = IF NewHighAt(i) THEN 0
                          ELSE (IF i = 1 THEN 0 ELSE d[i - 1]) + 1
                /\ d[i] <= anOut.maxDdDuration
          /\ \E i \in DOMAIN d : d[i] = anOut.maxDdDuration
          /\ anOut.maxDdDuration >= 0
          /\ anOut.maxDdDuration = 0 <=> \A i \in DOMAIN d : NewHighAt(i)

\* the series 108, 90, 100, 108: two points below the peak, then the peak again
C12_Witness ==
    /\ PositiveSummary
    /\ Len(an.points) = 4
    /\ anOut.ddDurations = <<0, 1, 2, 0>>
    /\ anOut.maxDdDuration = 2

\* returns i..j are all strictly negative
LosingRun(i, j) == \A k \in i..j : Lt(anOut.returns[k], Zero)

\* C13: maxLose is the length of the longest run of consecutive strictly
\* negative returns; a zero or positive return ends a run, and maxLose is 0
\* when no return is negative.
C13_LongestLosingRun ==
    anOut.kind = "summary" =>
       LET n == Len(anOut.returns)
           runs == {0} \cup {j - i + 1 : i \in 1..n, j \in 1..n}
           isRun(len) == len = 0 \/ \E i \in 1..(n - len + 1) : LosingRun(i, i + len - 1)
       IN /\ anOut.maxLose \in runs
          /\ isRun(anOut.maxLose)
          /\ \A len \in runs : isRun(len) => len <= anOut.maxLose
          /\ (\A k \in 1..n : ~Lt(anOut.returns[k], Zero)) => anOut.maxLose = 0

\* the series 108, 100, 90, 90: two losses, then a flat day
C13_Witness ==
    /\ anOut.kind = "summary"
    /\ Len(anOut.returns) = 3
    /\ Lt(anOut.returns[1], Zero) /\ Lt(anOut.returns[2], Zero)
    /\ anOut.returns[3] = Zero
    /\ anOut.maxLose = 2

InUnit(x) == NumberIsFinite(x) /\ Ge(x, Zero) /\ Le(x, One)

\* C14: for every positive series of at least 2 points painScore is an
\* integer from 0 to 100 and each of painBreakdown.depth, .length and .jitter
\* is a number from 0 to 1.
C14_PainScoreInRange ==
    PositiveSummary =>
       /\ IsInteger(anOut.painScore)
       /\ Ge(anOut.painScore, Zero) /\ Le(anOut.painScore, Int2Num(100))
       /\ InUnit(anOut.painBreakdown.depth)
       /\ InUnit(anOut.painBreakdown.length)
       /\ InUnit(anOut.painBreakdown.jitter)

\* a year of halvings and doublings under an early peak: the depth, the
\* length and the jitter all reach their caps and the score is 100
C14_Witness ==
    /\ PositiveSummary
    /\ Lt(anOut.maxDD, Rat(-3, 5))
    /\ anOut.maxDdDuration >= YearReturns
    /\ anOut.painBreakdown.depth = One
    /\ anOut.painBreakdown.length = One
    /\ anOut.painBreakdown.jitter = One
    /\ anOut.painScore = Int2Num(100)

\* the returns that count among the k smallest: fewer than k returns are
\* smaller or, being equal, come earlier
AmongSmallest(returns, k) ==
    {i \in DOMAIN returns :
       Cardinality({j \in DOMAIN returns :
                      Lt(returns[j], returns[i])
                        \/ (j < i /\ returns[j] = returns[i])}) < k}

MeanOfSmallest(returns, k) ==
    LET low == AmongSmallest(returns, k)
    IN Div(SumNums([i \in DOMAIN returns |->
                      IF i \in low THEN returns[i] ELSE Zero]), Int2Num(k))

\* C15: worst10Avg is undefined for every series with fewer than 10 returns,
\* and for every series with at least 10 returns it is the mean of the 10
\* smallest returns.
C15_Worst10AvgIsMeanOfTenSmallest ==
    anOut.kind = "summary" =>
       IF Len(anOut.returns) < 10 THEN anOut.worst10Avg = Undefined
       ELSE /\ Cardinality(AmongSmallest(anOut.returns, 10)) = 10
            /\ anOut.worst10Avg = MeanOfSmallest(anOut.returns, 10)

\* more than 10 returns, the first 10 of which are not the 10 smallest
C15_Witness ==
    /\ anOut.kind = "summary"
    /\ Len(anOut.returns) > 10
    /\ NumberIsFinite(anOut.worst10Avg)
    /\ Lt(anOut.worst10Avg,
          Div(SumNums(SubSeq(anOut.returns, 1, 10)), Int2Num(10)))

\* C16: dailyVol is undefined exactly when there are fewer than 2 returns and
\* worstYear exactly when there are fewer than 252, and neither is 0 in
\* place of undefined; only the jitter of the pain score takes 0 for an
\* undefined dailyVol, so that for a series of 2 points
\* painScore = round(100 * (0.55 * depth + 0.30 * length)).
C16_UndefinedStatistics ==
    anOut.kind = "summary" =>
       /\ (anOut.dailyVol = Undefined) <=> (Len(anOut.returns) < 2)
       /\ (anOut.worstYear = Undefined) <=> (Len(anOut.returns) < 252)
       /\ Len(an.points) = 2 =>
            LET depth == MathMax(Zero, MathMin(One,
                            Div(MathAbs(anOut.maxDD), Rat(3, 5))))
                length == MathMax(Zero, MathMin(One,
                            Div(Int2Num(anOut.maxDdDuration), Int2Num(252))))
            IN /\ anOut.painBreakdown.jitter = Zero
               /\ anOut.painScore =
                    MathRound(Mul(Int2Num(100),
                                  Add(Mul(Rat(55, 100), depth),
                                      Mul(Rat(30, 100), length))))

\* the series 100, 90: one return, a drawdown of 10% lasting one day
C16_Witness ==
    /\ anOut.kind = "summary"
    /\ Len(an.points) = 2
    /\ anOut.dailyVol = Undefined /\ anOut.worstYear = Undefined
    /\ anOut.maxDD = Rat(-1, 10) /\ anOut.maxDdDuration = 1
    /\ anOut.painScore = Int2Num(9)

\* the return sample of a date
SampleOn(date) ==
    CHOOSE x \in {anOut.retSeries[i] : i \in DOMAIN anOut.retSeries} : x.date = date

\* C17: for every positive series worstDays has k = min(10, number of
\* returns) entries, ranked 1..k in order; each carries the date of a return of
\* its own and that return as a percentage; the returns do not decrease along
\* the list, and no return left out is smaller than a listed one.
C17_WorstDaysRanked ==
    PositiveSummary =>
       LET w == anOut.worstDays
           n == Len(anOut.retSeries)
           k == IF n < 10 THEN n ELSE 10
           days == {anOut.retSeries[i].date : i \in 1..n}
           listed == {w[i].date : i \in DOMAIN w}
       IN /\ Len(w) = k
          /\ \A i \in 1..Len(w) :
               /\ w[i].rank = i
               /\ w[i].date \in days
               /\ w[i].retPct = round(Mul(SampleOn(w[i].date).r, Int2Num(100)), 2)
          /\ Cardinality(listed) = Len(w)
          /\ \A i \in 1..(Len(w) - 1) :
               Le(SampleOn(w[i].date).r, SampleOn(w[i + 1].date).r)
          /\ \A i \in 1..n :
               anOut.retSeries[i].date \notin listed =>
                 \A j \in 1..Len(w) :
                    Le(SampleOn(w[j].date).r, anOut.retSeries[i].r)

\* more than 10 returns: the list stops at 10, begins with a return that is
\* not the first of the series and leaves out a larger one
C17_Witness ==
    /\ PositiveSummary
    /\ Len(anOut.retSeries) > 10
    /\ Len(anOut.worstDays) = 10
    /\ anOut.worstDays[1].date # anOut.retSeries[1].date
    /\ anOut.worstDays[1].retPct = Int2Num(-75)
    /\ anOut.worstDays[10].rank = 10
    /\ Gt(anOut.retSeries[1].r, SampleOn(anOut.worstDays[10].date).r)

QuantilesDone == qt.kind = "done" /\ Len(qt.arr) > 0

\* the value at place k (from 1) of arr in ascending order
AtPlace(arr, k) ==
    arr[CHOOSE i \in DOMAIN arr :
          Cardinality({j \in DOMAIN arr :
                         Lt(arr[j], arr[i]) \/ (j < i /\ arr[j] = arr[i])}) = k - 1]

\* the conventional median: the middle value of an odd number of values, the
\* mean of the two middle values of an even number
Median(arr) ==
    LET n == Len(arr)
    IN IF n % 2 = 1 THEN AtPlace(arr, (n + 1) \div 2)
       ELSE Div(Add(AtPlace(arr, n \div 2), AtPlace(arr, n \div 2 + 1)), Int2Num(2))

\* C18: for every non-empty array of finite numbers quantile(arr, 1/2) is
\* the conventional median, for odd and for even lengths; quantile(arr, q)
\* does not decrease as q grows within [0, 1]; and the quantile of leaps-sim.js
\* gives the analyzer's value on the same data, sorted, at the same
\* probability.
C18_QuantileMedianMonotoneAgree ==
    QuantilesDone =>
       /\ qt.q = Rat(1, 2) => qt.atQ = Median(qt.arr)
       /\ Le(qt.q, qt.p) => Le(qt.atQ, qt.atP)
       /\ qt.simQ = qt.atQ

\* four values out of order, the median between the two middle ones and a
\* higher quantile strictly above it
C18_Witness ==
    /\ QuantilesDone
    /\ qt.arr = <<Int2Num(4), Rat(-3, 4), One, Zero>>
    /\ qt.q = Rat(1, 2) /\ qt.p = Rat(19, 20)
    /\ qt.atQ = Rat(1, 2) /\ qt.simQ = Rat(1, 2)
    /\ qt.atP = Rat(71, 20)

\* the pages whose scenario evaluator C19 and C20 are about
ScenarioPages == {"leaps-scenario-page", "leaps-scenario"}

DaysInMonth(y, m) ==
    IF m = 2 THEN (IF y % 4 = 0 /\ (y % 100 # 0 \/ y % 400 = 0) THEN 29 ELSE 28)
    ELSE IF m \in {4, 6, 9, 11} THEN 30 ELSE 31

\* s is YYYY-MM-DD and names a day of the calendar
ValidCalendarDate(s) ==
    LET m == MatchYMD(s)
    IN m # <<>> /\ m[2] \in 1..12 /\ m[3] \in 1..DaysInMonth(m[1], m[2])

AfterExpiry(s) ==
    LET m == MatchYMD(s)
    IN ValidCalendarDate(s) /\ DaysFromCivil(m[1], m[2], m[3]) > ExpirationDay

\* one of the preconditions of the evaluation does not hold of its inputs
PreconditionViolated ==
    \/ ~ValidCalendarDate(sc.scenarioDate)
    \/ AfterExpiry(sc.scenarioDate)
    \/ Le(Number(RawStr(sc.scenarioSpot)), Zero)
    \/ Le(Number(sc.strike), Zero)
    \/ ~NumberIsFinite(Number(RawStr(sc.rate)))
    \/ ~NumberIsFinite(Number(RawStr(sc.divYield)))
    \/ ~NumberIsFinite(Number(RawStr(sc.ivShift)))

\* C19: whenever the scenario date is not a valid calendar date or is after
\* the expiry, scenarioSpot <= 0, the strike <= 0, or one of r, q, ivShift is
\* not finite, the scenario evaluator gives no theoretical price and reports
\* a validation failure.
C19_ViolatedPreconditionRejected ==
    (sc.page \in ScenarioPages /\ PreconditionViolated) =>
       scOut.kind = "error" /\ scOut.theo = JsNull

\* the scenario date is today or later and before the expiry, so that T > 0
DateBeforeExpiry(s) ==
    LET m == MatchYMD(s)
        t == MatchYMD(TodayString)
    IN /\ ValidCalendarDate(s)
       /\ DaysFromCivil(t[1], t[2], t[3]) <= DaysFromCivil(m[1], m[2], m[3])
       /\ DaysFromCivil(m[1], m[2], m[3]) < ExpirationDay

\* a scenario evaluation on valid inputs with T > 0
ValidScenario ==
    /\ sc.page \in ScenarioPages
    /\ ~PreconditionViolated
    /\ Gt(Number(RawStr(sc.scenarioSpot)), Zero)
    /\ Gt(Number(sc.strike), Zero)
    /\ DateBeforeExpiry(sc.scenarioDate)
    /\ NumberIsFinite(Number(sc.impliedVolatility))

ShiftedIv == Add(Number(sc.impliedVolatility), Number(RawStr(sc.ivShift)))
IvUsed == MathMax(Zero, ShiftedIv)
Declined == scOut.theo = JsNull
GavePrice == scOut.theo.k \in {"fin", "real"}

C21_PnlOnlyWhenPremiumSupplied ==
    (sc.page \in ScenarioPages /\ scOut.kind # "none") =>
       /\ sc.premiumPaid = "" => scOut.pnl = JsNull
       /\ scOut.pnl # JsNull =>
            scOut.pnl = PnlPer(scOut.theo, Number(RawStr(sc.premiumPaid)), 1)

\* the values of a list of numbers
ValuesOf(seq) == {seq[i] : i \in DOMAIN seq}

StrictlyAscending(seq) == \A i \in 1..(Len(seq) - 1) : Lt(seq[i], seq[i + 1])

CappedAt(d, H) == IF Lt(H, d) THEN H ELSE d

\* C22: at the step that fixes the checkpoints, with H = totalHorizonDays:
\* when no valid checkpoint was supplied the checkpoints are the sorted set
\* {min(30,H), min(90,H), min(180,H), min(365,H)} with H; when some valid
\* checkpoint was supplied they are the supplied ones, capped at H, with H, and
\* no default is added.
C22_DefaultsOnlyWhenNoneSupplied ==
    [][(pc = "cpdates" /\ pc' = "loop") =>
         LET H == MathFloor(dates.totalDays)
             defaults == {CappedAt(Int2Num(d), H) : d \in {30, 90, 180, 365}}
         IN /\ StrictlyAscending(cpDays')
            /\ ValuesOf(cpDays') =
                 (IF cpDays = <<>> THEN defaults
                  ELSE {CappedAt(d, H) : d \in ValuesOf(cpDays)}) \cup {H}]_vars

\* a horizon of 400 days and no checkpoint supplied
C22_Witness ==
    /\ pc = "loop"
    /\ MathFloor(dates.totalDays) = Int2Num(400)
    /\ cpDays = <<Int2Num(30), Int2Num(90), Int2Num(180), Int2Num(365), Int2Num(400)>>

\* a validated run has its checkpoints
InPathLoop == pc = "loop" \/ (pc = "done" /\ res = Result)

\* the latest valuation was made at the last checkpoint of a path
AtTerminalCheckpoint == InPathLoop /\ lastCall # NoCall /\ ci = 1

\* C23: in a validated run every time step is > 0 and the steps sum to the
\* horizon in years; the remaining time does not increase from one checkpoint
\* to the next and is 0 at the last one, so that the value recorded at the
\* last checkpoint of a path is the intrinsic payoff at the path's final price.
C23_StepsAndRemainingTime ==
    InPathLoop =>
       LET n == Len(cpDays)
           dt == dtYears(cpDays)
       IN /\ n >= 1
          /\ \A i \in 1..n : Gt(dt[i], Zero)
          /\ SumNums(dt) = Div(MathFloor(dates.totalDays), Int2Num(365))
          /\ \A i \in 1..(n - 1) :
               Ge(T_remain(cpDays, i), T_remain(cpDays, i + 1))
          /\ T_remain(cpDays, n) = Zero
          /\ AtTerminalCheckpoint =>
               /\ lastCall.T = Zero
               /\ lastCall.Sx = S
               /\ lastCall.value = IntrinsicValue(S, loc.K, loc.optType)

\* a path through several checkpoints that ends in the money
C23_Witness ==
    /\ AtTerminalCheckpoint
    /\ Len(cpDays) > 1
    /\ Gt(T_remain(cpDays, 1), Zero)
    /\ lastCall.T = Zero
    /\ Gt(lastCall.value, Zero)

\* the slots of the paths the model follows one by one, paths counted from 0
SlotsOfPaths(n) == {<<i, p>> : i \in 1..Len(cpDays), p \in 0..(n - 1)}

\* the paths run to their end
PathsDone == IF Lt(path, Int2Num(MaxPaths)) THEN path.n ELSE MaxPaths

\* every slot written so far was written once; those of the finished paths
\* are all written, and of the running path those before the next checkpoint
SlotsWrittenOnce ==
    InPathLoop =>
       /\ \A k \in DOMAIN written : written[k] = 1
       /\ DOMAIN written =
            SlotsOfPaths(PathsDone)
              \cup (IF Lt(path, Int2Num(MaxPaths)) /\ pc = "loop"
                      THEN {<<i, path.n>> : i \in 1..(ci - 1)} ELSE {})

\* a step of the loop leaves the run parameters alone and writes no slot but
\* one of the path it is on
ParametersFixed ==
    (pc = "loop") =>
       /\ loc' = loc /\ cpDays' = cpDays /\ dates' = dates
       /\ \A k \in DOMAIN written' \ DOMAIN written : k[2] = path.n

\* C24: in simulate the steps of the path loop leave the run parameters
\* unchanged; each output slot (checkpoint, path) is written once, by its own
\* path, and all are written when the paths are done; and the summary of a
\* checkpoint (mean, pProfit, p05, p50, p95) is the same for every order of
\* the values.
C24_SlotsOnceSummaryOrderFree ==
    /\ [](SlotsWrittenOnce /\ (sm.kind = "done" => sm.ofArr = sm.ofOther))
    /\ [][ParametersFixed]_vars

\* both paths done, every slot filled
C24_Witness ==
    /\ pc = "done" /\ res = Result
    /\ Len(cpDays) > 1
    /\ DOMAIN written = SlotsOfPaths(MaxPaths)

\* three values given in an order that is neither ascending nor descending
C24_WitnessSummary ==
    /\ sm.kind = "done"
    /\ sm.arr = <<Int2Num(250), Int2Num(1000), Int2Num(-500)>>
    /\ sm.other = <<Int2Num(-500), Int2Num(250), Int2Num(1000)>>
    /\ sm.ofArr.p50 = Int2Num(250)

RunStarted == pc = "loop"
RunAnswered == pc = "done" /\ res = Result

\* C25: a validated run, given that each loop of randn ends, goes on to
\* answer with a result, after sims * (number of checkpoints) valuations and
\* with every slot of its paths written; no result is given before that.
C25_RunCompletes ==
    /\ [](res = Result =>
            /\ pc = "done"
            /\ nVals = loc.sims.n * Len(cpDays)
            /\ DOMAIN written = SlotsOfPaths(MaxPaths))
    /\ (RunStarted ~> RunAnswered)

\* a run of 500 paths over 5 checkpoints answered
C25_Witness ==
    /\ RunAnswered
    /\ loc.sims = Int2Num(500)
    /\ Len(cpDays) = 5
    /\ nVals = 2500

\* the answer to req arrives in this step, after a later call of fetchChain
Superseded(req) ==
    /\ req \in page.inflight
    /\ req \notin page'.inflight
    /\ req.id # page.lastReqId

\* C26: the outcome of a request that a later fetchChain call has superseded
\* changes none of data, expiryMs, contractSymbol and err.
C26_SupersededOutcomeDiscarded ==
    [][\A req \in page.inflight :
          Superseded(req) =>
             /\ page'.data = page.data
             /\ page'.expiryMs = page.expiryMs
             /\ page'.contractSymbol = page.contractSymbol
             /\ page'.err = page.err]_vars

\* a successful answer to the latest request is applied in this step
AppliesResponse ==
    \E req \in page.inflight :
       /\ req \notin page'.inflight
       /\ req.id = page.lastReqId
       /\ page'.data.kind = "chain"

\* C27: applying a successful options-chain response sets no debounce timer,
\* so that it triggers no further fetch.
C27_ResponseSchedulesNoFetch ==
    [][AppliesResponse => (~page'.timer.set \/ page'.timer = page.timer)]_vars

\* the latest step answered or forwarded a request for a key
Arrived == api.last.op = "arrive" /\ api.last.symbol # ""

\* the provider failed for the key of the latest request less than the
\* cooldown before the request arrived
RecentFailure ==
    /\ api.failedAt[api.last.key] # 0
    /\ api.last.at - api.failedAt[api.last.key] < FAIL_COOLDOWN_MS

\* C28: a request for a key that arrives within the cooldown after any
\* failure of the provider for that key is answered 429 and the provider is
\* not contacted.
C28_CooldownAfterEveryFailure ==
    (Arrived /\ RecentFailure) => (api.last.status = 429 /\ ~api.last.contacted)

\* the cache held an entry younger than the TTL for the key of the latest
\* request when it arrived
FreshEntry ==
    /\ api.cache[api.last.key] # NoEntry
    /\ api.last.at - api.cache[api.last.key].ts < CACHE_TTL_MS

AscendingByDate(points) ==
    \A i \in 1..(Len(points) - 1) : points[i].date <= points[i + 1].date

\* C29: a request for a key with a fresh cache entry is answered 200 with the
\* cached points, at least 2 and ascending by date, and the provider is not
\* contacted.
C29_FreshCacheServed ==
    (Arrived /\ FreshEntry) =>
       /\ api.last.status = 200
       /\ ~api.last.contacted
       /\ api.last.points = api.cache[api.last.key].points
       /\ Len(api.last.points) >= 2
       /\ AscendingByDate(api.last.points)

\* every analysis started has been answered, all of them with points
AllAnswered == home.started > 0 /\ home.inflight = {} /\ home.allOk

\* C30: once all of several overlapping analyses have been answered, the
\* points shown are those of the analysis started last.
C30_LatestAnalysisShown ==
    AllAnswered => home.points = home.latest

=============================================================================
